---- MODULE Spec2Model ----
(***************************************************************************)
(* Fuzzy tune-name matching and resolution engine of skronk-and-skreigh:   *)
(* name normalisation, similarity scoring, alias expansion, type-aware     *)
(* scoring, local file search and the sequential / parallel batch          *)
(* resolver.                                                               *)
(*                                                                         *)
(* A Python str is a sequence of one-character strings.  A score (Python   *)
(* float in [0,1]) is a reduced fraction [n |-> _, d |-> _]: every score   *)
(* the code produces is a quotient or product of small integers, for which *)
(* float comparison and rational comparison agree.                         *)
(***************************************************************************)
EXTENDS Integers, Sequences, FiniteSets, TLC

VARIABLES
    pc,         \* position of the caller: which operation has been applied
    inp,        \* arguments of the operation under study
    out,        \* values returned so far
    seq_next,   \* find_tunes_for_set: index of the next tune of the for loop
    seq_results,\* find_tunes_for_set: the results dict
    par_pc,     \* find_tunes_for_set_async: position of the coroutine
    file_candidates, \* find_tunes_for_set_async: pre-scanned (path, name) list
    search_tasks,    \* find_tunes_for_set_async: prepared task tuples
    futures,    \* ProcessPoolExecutor: state of each submitted future
    par_results, \* find_tunes_for_set_async: the results dict
    max_workers, \* find_tunes_for_set_async: size of the worker pool
    aliases_file,  \* TheSession-data/csv/aliases.csv on disk
    aliases_cache, \* thesession_data._aliases_cache
    cache_time, \* thesession_data._cache_time
    now,        \* the clock read by datetime.now(), in hours
    git_invoked, \* whether update_thesession_data has run git clone / pull
    cache_file  \* thesession_integration: tune_aliases_cache.json on disk

vars == <<pc, inp, out, seq_next, seq_results, par_pc, file_candidates,
          search_tasks, futures, par_results, max_workers, aliases_file,
          aliases_cache, cache_time, now, git_invoked, cache_file>>

cacheVars == <<aliases_file, aliases_cache, cache_time, now, git_invoked,
               cache_file>>

batchVars == <<seq_next, seq_results, par_pc, file_candidates, search_tasks,
               futures, par_results, max_workers>>

(***************************************************************************)
(* Python str primitives                                                   *)
(***************************************************************************)
UpperCase == <<"A","B","C","D","E","F","G","H","I","J","K","L","M",
               "N","O","P","Q","R","S","T","U","V","W","X","Y","Z">>

LowerCase == <<"a","b","c","d","e","f","g","h","i","j","k","l","m",
               "n","o","p","q","r","s","t","u","v","w","x","y","z">>

Digits == {"0","1","2","3","4","5","6","7","8","9"}

\* characters matched by the regex class \s and removed by str.strip()
Whitespace == {" ", "\t"}

IsUpper(c) == \E i \in 1..Len(UpperCase) : UpperCase[i] = c

IsLower(c) == \E i \in 1..Len(LowerCase) : LowerCase[i] = c

LowerChar(c) ==
    IF IsUpper(c)
    THEN LowerCase[CHOOSE i \in 1..Len(UpperCase) : UpperCase[i] = c]
    ELSE c

UpperChar(c) ==
    IF IsLower(c)
    THEN UpperCase[CHOOSE i \in 1..Len(LowerCase) : LowerCase[i] = c]
    ELSE c

\* str.lower()
Lower(s) == [i \in 1..Len(s) |-> LowerChar(s[i])]

\* s[k:] for a 0-based k
From(s, k) == IF k >= Len(s) THEN <<>> ELSE SubSeq(s, k + 1, Len(s))

RECURSIVE LStrip(_)
LStrip(s) ==
    IF s # <<>> /\ Head(s) \in Whitespace THEN LStrip(Tail(s)) ELSE s

RECURSIVE RStrip(_)
RStrip(s) ==
    IF s # <<>> /\ s[Len(s)] \in Whitespace
    THEN RStrip(SubSeq(s, 1, Len(s) - 1))
    ELSE s

\* str.strip()
Strip(s) == RStrip(LStrip(s))

\* str.startswith(p)
StartsWith(s, p) == Len(s) >= Len(p) /\ SubSeq(s, 1, Len(p)) = p

\* str.endswith(p)
EndsWith(s, p) ==
    Len(s) >= Len(p) /\ SubSeq(s, Len(s) - Len(p) + 1, Len(s)) = p

\* the lowest 1-based index at which sub occurs in s, or 0 (str.find)
Find(s, sub) ==
    LET hits == { i \in 1..(Len(s) - Len(sub) + 1) :
                      SubSeq(s, i, i + Len(sub) - 1) = sub }
    IN  IF hits = {} THEN 0 ELSE CHOOSE i \in hits : \A j \in hits : i <= j

\* sub in s
Contains(s, sub) == sub = <<>> \/ Find(s, sub) # 0

\* str.replace(old, new) for a non-empty old: leftmost, non-overlapping
RECURSIVE Replace(_, _, _)
Replace(s, old, new) ==
    LET i == Find(s, old)
    IN  IF i = 0 THEN s
        ELSE SubSeq(s, 1, i - 1) \o new
                 \o Replace(From(s, i - 1 + Len(old)), old, new)

\* str.split(sep) for a non-empty sep: the list of pieces
RECURSIVE Split(_, _)
Split(s, sep) ==
    LET i == Find(s, sep)
    IN  IF i = 0 THEN <<s>>
        ELSE <<SubSeq(s, 1, i - 1)>> \o Split(From(s, i - 1 + Len(sep)), sep)

\* re.sub(r'[chars]', '', s)
RemoveChars(s, chars) == SelectSeq(s, LAMBDA c : c \notin chars)

\* re.sub(r'[chars]', ' ', s)
CharsToSpace(s, chars) ==
    [i \in 1..Len(s) |-> IF s[i] \in chars THEN " " ELSE s[i]]

\* re.sub(r'\s+', ' ', s)
RECURSIVE CollapseWhitespace(_)
CollapseWhitespace(s) ==
    IF s = <<>> THEN <<>>
    ELSE IF Head(s) \in Whitespace
         THEN <<" ">> \o CollapseWhitespace(LStrip(s))
         ELSE <<Head(s)>> \o CollapseWhitespace(Tail(s))

RECURSIVE Concat(_)
Concat(ss) == IF ss = <<>> THEN <<>> ELSE Head(ss) \o Concat(Tail(ss))

\* all sequences of at most n elements of S
SeqsUpTo(S, n) == UNION { [1..k -> S] : k \in 0..n }

(***************************************************************************)
(* fuzzy_match.normalize_tune_name                                         *)
(***************************************************************************)
\* The regex class of line 24 holds the straight apostrophe and the backtick
\* (written "backtick" here); the curly quotes U+2018 / U+2019 (written
\* "lsquo" / "rsquo") are not in it.
Apostrophes == {"'", "backtick"}

Punctuation == {",", ".", "!", "?", ";", ":"}

the_ == <<"t","h","e"," ">>

comma_the == <<",", " ", "t", "h", "e">>

\* lines 30-32: "the X" becomes "X, the"
move_the(name) ==
    IF StartsWith(name, the_) THEN From(name, 4) \o comma_the ELSE name

normalize_tune_name(name) ==
    move_the(
        CollapseWhitespace(
            CharsToSpace(
                RemoveChars(RemoveChars(Strip(Lower(name)), Apostrophes),
                            Punctuation),
                {"-", "_"})))

(***************************************************************************)
(* Scores                                                                  *)
(***************************************************************************)
RECURSIVE GCD(_, _)
GCD(m, n) == IF n = 0 THEN m ELSE GCD(n, m % n)

\* the score n/d, in lowest terms
Frac(n, d) == LET g == GCD(n, d) IN [n |-> n \div g, d |-> d \div g]

Zero == Frac(0, 1)

One == Frac(1, 1)

\* x >= y
GE(x, y) == x.n * y.d >= y.n * x.d

\* x > y
GT(x, y) == x.n * y.d > y.n * x.d

\* max(x, y)
Max(x, y) == IF GE(x, y) THEN x ELSE y

\* min(x, y)
Min(x, y) == IF GE(x, y) THEN y ELSE x

\* x * y
Times(x, y) == Frac(x.n * y.n, x.d * y.d)

(***************************************************************************)
(* difflib.SequenceMatcher(None, a, b).ratio(), as used by                 *)
(* calculate_similarity.  Positions are 0-based and windows half-open, as  *)
(* in difflib; a[i] of difflib is a[i + 1] here.  No element is junk: the  *)
(* autojunk heuristic only applies to a second sequence of 200 or more     *)
(* elements.                                                               *)
(***************************************************************************)
\* j2len: the length of the common run that ends at a[i], b[j] (0-based)
\* and lies within a[alo:], b[blo:]
RECURSIVE RunLen(_, _, _, _, _, _)
RunLen(a, b, i, j, alo, blo) ==
    IF i < alo \/ j < blo THEN 0
    ELSE IF a[i + 1] # b[j + 1] THEN 0
    ELSE 1 + RunLen(a, b, i - 1, j - 1, alo, blo)

\* the common runs within a[alo:ahi], b[blo:bhi], each <<i, j, k>>: a run
\* of size k that ends at a[i], b[j] (0-based)
runs(a, b, alo, ahi, blo, bhi) ==
    { <<e[1], e[2], RunLen(a, b, e[1], e[2], alo, blo)>> :
          e \in { f \in (alo..(ahi - 1)) \X (blo..(bhi - 1)) :
                      a[f[1] + 1] = b[f[2] + 1] } }

longest_runs(rs) == { r \in rs : \A q \in rs : r[3] >= q[3] }

first_run(rs) ==
    CHOOSE r \in rs :
        \A q \in rs : r[1] < q[1] \/ (r[1] = q[1] /\ r[2] <= q[2])

\* the block <<besti, bestj, bestsize>> of the run r
block_of(r) == <<r[1] - r[3] + 1, r[2] - r[3] + 1, r[3]>>

best_block(rs, alo, blo) ==
    IF rs = {} THEN <<alo, blo, 0>> ELSE block_of(first_run(longest_runs(rs)))

\* find_longest_match(alo, ahi, blo, bhi): <<besti, bestj, bestsize>>.  The
\* loops visit the run ends (i, j) in increasing i, then increasing j, and
\* replace the best only by a strictly longer run.
find_longest_match(a, b, alo, ahi, blo, bhi) ==
    best_block(runs(a, b, alo, ahi, blo, bhi), alo, blo)

\* get_matching_blocks: the total size of the blocks, found by recursing to
\* the left and to the right of the longest match m
RECURSIVE matching_size(_, _, _, _, _, _)
RECURSIVE blocks_around(_, _, _, _, _, _, _)
blocks_around(a, b, alo, ahi, blo, bhi, m) ==
    IF m[3] = 0 THEN 0
    ELSE m[3] + (IF alo < m[1] /\ blo < m[2]
                 THEN matching_size(a, b, alo, m[1], blo, m[2]) ELSE 0)
              + (IF m[1] + m[3] < ahi /\ m[2] + m[3] < bhi
                 THEN matching_size(a, b, m[1] + m[3], ahi, m[2] + m[3], bhi)
                 ELSE 0)

matching_size(a, b, alo, ahi, blo, bhi) ==
    blocks_around(a, b, alo, ahi, blo, bhi,
                  find_longest_match(a, b, alo, ahi, blo, bhi))

\* ratio(): 2.0 * matches / (len(a) + len(b)), and 1.0 for two empty strings
ratio(a, b) ==
    IF Len(a) + Len(b) > 0
    THEN Frac(2 * matching_size(a, b, 0, Len(a), 0, Len(b)), Len(a) + Len(b))
    ELSE One

(***************************************************************************)
(* fuzzy_match.calculate_similarity                                        *)
(***************************************************************************)
\* buggy variant: compares and scores the raw strings, not the normalized
calculate_similarity_raw(str1, str2) ==
    IF str1 = str2 THEN One ELSE ratio(str1, str2)

\* lines 46-50, on the normalized names
similarity_of(norm1, norm2) == IF norm1 = norm2 THEN One ELSE ratio(norm1, norm2)

calculate_similarity(str1, str2) ==
    similarity_of(normalize_tune_name(str1), normalize_tune_name(str2))

(***************************************************************************)
(* fuzzy_match.fuzzy_match_tune and find_common_variations                 *)
(***************************************************************************)
\* the set of elements of a list
Range(f) == { f[i] : i \in DOMAIN f }

\* an Optional value: None is <<>>, the value v is <<v>>
None == <<>>

Some(v) == <<v>>

\* Python truth value of an Optional[int]
Truthy(v) == v # None /\ v[1] # 0

\* list.sort(key=score, reverse=True) on (item, score) pairs: descending,
\* and stable (equal scores keep their order)
RECURSIVE SortByScore(_)
SortByScore(ms) ==
    IF ms = <<>> THEN <<>>
    ELSE LET rest == SortByScore(SubSeq(ms, 1, Len(ms) - 1))
             last == ms[Len(ms)]
             ahead == { i \in 1..Len(rest) : GE(rest[i][2], last[2]) }
             k == IF ahead = {} THEN 0
                  ELSE CHOOSE i \in ahead : \A j \in ahead : i >= j
         IN  SubSeq(rest, 1, k) \o <<last>> \o SubSeq(rest, k + 1, Len(rest))

\* ms[:n]
Take(ms, n) == SubSeq(ms, 1, IF n < Len(ms) THEN n ELSE Len(ms))

\* if max_results: matches = matches[:max_results]
Cap(matches, max_results) ==
    IF Truthy(max_results) THEN Take(matches, max_results[1]) ELSE matches

fuzzy_match_tune(target, candidates, threshold, max_results) ==
    Cap(SortByScore(SelectSeq(
            [i \in 1..Len(candidates) |->
                <<candidates[i], calculate_similarity(target, candidates[i])>>],
            LAMBDA m : GE(m[2], threshold))),
        max_results)

IsLetter(c) == IsUpper(c) \/ IsLower(c)

\* str.title()
Title(s) ==
    [i \in 1..Len(s) |->
        IF i = 1 \/ ~IsLetter(s[i - 1]) THEN UpperChar(s[i])
        ELSE LowerChar(s[i])]

\* "Remove duplicates while preserving order": the first of each lower-case
\* form is kept
RECURSIVE UniqueByLower(_, _)
UniqueByLower(vs, seen) ==
    IF vs = <<>> THEN <<>>
    ELSE IF Lower(Head(vs)) \in seen THEN UniqueByLower(Tail(vs), seen)
    ELSE <<Head(vs)>> \o UniqueByLower(Tail(vs), seen \cup {Lower(Head(vs))})

replacements ==
    << << <<"&">>, <<"a","n","d">> >>,
       << <<"a","n","d">>, <<"&">> >>,
       << <<"'","s">>, <<"s">> >>,
       << <<"s">>, <<"'","s">> >> >>

find_common_variations(tune_name) ==
    LET has_the == StartsWith(Lower(tune_name), the_)
        replaced(r) ==
            IF Contains(Lower(tune_name), r[1])
            THEN << Replace(tune_name, r[1], r[2]),
                    Replace(tune_name, Title(r[1]), Title(r[2])) >>
            ELSE <<>>
        variations ==
            <<tune_name, normalize_tune_name(tune_name)>>
            \o (IF has_the THEN <<From(tune_name, 4)>> ELSE <<>>)
            \o (IF ~has_the THEN << <<"T","h","e"," ">> \o tune_name >>
                ELSE <<>>)
            \o Concat([k \in 1..Len(replacements) |->
                          replaced(replacements[k])])
    IN  UniqueByLower(variations, {})

(***************************************************************************)
(* thesession_data: load_aliases_data, get_tune_aliases,                   *)
(* get_all_tune_variations.  A dataset is the list of rows of aliases.csv, *)
(* each [tune_id, alias, name].  An aliases map is a function from keys to *)
(* lists of names.                                                         *)
(***************************************************************************)
\* csv.DictReader gives a row that is shorter than the header the value
\* None for every column it lacks: NoValue; no string equals it
NoValue == <<"None">>

\* tune_aliases: tune_id -> set of its aliases and canonical names
tune_aliases(rows) ==
    [t \in { rows[i].tune_id : i \in DOMAIN rows } |->
        UNION { {rows[i].alias, rows[i].name} :
                    i \in { j \in DOMAIN rows : rows[j].tune_id = t } }]

\* buggy variant: only the alias column gives keys, not the canonical name
name_to_aliases_alias_keys(rows) ==
    LET ta == tune_aliases(rows)
        keys == { Strip(Lower(rows[i].alias)) : i \in DOMAIN rows }
    IN  [k \in keys |->
            UNION { ta[t] : t \in { u \in DOMAIN ta :
                                      \E a \in ta[u] : Strip(Lower(a)) = k } }]

\* name_to_aliases: lower-cased, stripped alias -> set of names
name_to_aliases(rows) ==
    LET ta == tune_aliases(rows)
        keys == { Strip(Lower(a)) : a \in UNION { ta[t] : t \in DOMAIN ta } }
    IN  [k \in keys |->
            UNION { ta[t] : t \in { u \in DOMAIN ta :
                                      \E a \in ta[u] : Strip(Lower(a)) = k } }]

\* the lists list(v) can be: every order of the set v
Orderings(S) ==
    { f \in [1..Cardinality(S) -> S] : \A x \in S : \E i \in DOMAIN f : f[i] = x }

\* lines 70-97: the maps built from the rows of a readable file.  Each list
\* is list(set): its order is the iteration order of a set of str, which
\* the process's string hashing decides; it is any one order of the names.
build_aliases_map(rows) ==
    LET nta == name_to_aliases(rows)
        names == UNION { nta[k] : k \in DOMAIN nta }
    IN  { [k \in DOMAIN nta |-> SelectSeq(order, LAMBDA x : x \in nta[k])] :
              order \in Orderings(names) }

\* the empty dict
EmptyMap == <<>>

\* the aliases file: absent, unreadable, or readable with a list of rows
Absent == [state |-> "absent", rows |-> <<>>]

Unreadable == [state |-> "unreadable", rows |-> <<>>]

Readable(rows) == [state |-> "readable", rows |-> rows]

\* update_thesession_data(): the file states after the git clone / pull;
\* remote is the set of datasets the download can deliver
update_thesession_data(file, remote) == {file} \cup remote

\* lines 85-93: a short row puts None among the aliases of its tune_id,
\* and alias.lower() raises on it; the handler of lines 99-101 returns {}
lower_raises(rows) ==
    \E i \in DOMAIN rows : rows[i].alias = NoValue \/ rows[i].name = NoValue

\* load_aliases_data(): the pairs <<file afterwards, map returned>>.  An
\* absent file is first downloaded; a failed download or a read error
\* gives the empty map.
load_aliases_data(file, remote) ==
    LET after == IF file = Absent THEN update_thesession_data(file, remote)
                 ELSE {file}
    IN  UNION { IF f.state # "readable" \/ lower_raises(f.rows)
                THEN { <<f, EmptyMap>> }
                ELSE { <<f, m>> : m \in build_aliases_map(f.rows) } :
                    f \in after }

\* lines 65-67: load_aliases_data calls update_thesession_data(), which
\* runs git clone or git pull, exactly when the file does not exist
downloads(file) == file = Absent

\* CACHE_DURATION = timedelta(hours=1)
CACHE_DURATION == 1

\* buggy variant: every call loads the dataset
get_aliases_map_always(remote) ==
    \E r \in load_aliases_data(aliases_file, remote) :
        /\ aliases_file' = r[1]
        /\ aliases_cache' = Some(r[2])
        /\ cache_time' = Some(now)
        /\ git_invoked' = (git_invoked \/ downloads(aliases_file))
        /\ UNCHANGED cache_file

\* buggy variant: an empty cached map counts as no map
get_aliases_map_retry_empty(remote) ==
    IF \/ aliases_cache = None
       \/ aliases_cache = Some(EmptyMap)
       \/ cache_time = None
       \/ now - cache_time[1] > CACHE_DURATION
    THEN \E r \in load_aliases_data(aliases_file, remote) :
             /\ aliases_file' = r[1]
             /\ aliases_cache' = Some(r[2])
             /\ cache_time' = Some(now)
             /\ git_invoked' = (git_invoked \/ downloads(aliases_file))
             /\ UNCHANGED cache_file
    ELSE UNCHANGED <<aliases_file, aliases_cache, cache_time, git_invoked,
                     cache_file>>

\* get_aliases_map(): reload when nothing is cached or the cache is older
\* than CACHE_DURATION; the map returned is aliases_cache'[1]
get_aliases_map(remote) ==
    IF \/ aliases_cache = None
       \/ cache_time = None
       \/ now - cache_time[1] > CACHE_DURATION
    THEN \E r \in load_aliases_data(aliases_file, remote) :
             /\ aliases_file' = r[1]
             /\ aliases_cache' = Some(r[2])
             /\ cache_time' = Some(now)
             /\ git_invoked' = (git_invoked \/ downloads(aliases_file))
             /\ UNCHANGED cache_file
    ELSE UNCHANGED <<aliases_file, aliases_cache, cache_time, git_invoked,
                     cache_file>>

\* buggy variant: the queried name is not added to a found group
get_tune_aliases_noappend(aliases_map, tune_name) ==
    LET key == Strip(Lower(tune_name))
    IN  IF key \in DOMAIN aliases_map THEN aliases_map[key]
        ELSE <<tune_name>>

get_tune_aliases(aliases_map, tune_name) ==
    LET key == Strip(Lower(tune_name))
    IN  IF key \in DOMAIN aliases_map
        THEN IF tune_name \in Range(aliases_map[key])
             THEN aliases_map[key]
             ELSE Append(aliases_map[key], tune_name)
        ELSE <<tune_name>>

\* lines 163-168: the aliases and the common variations of each
variations_of(aliases) ==
    Range(aliases)
    \cup UNION { Range(find_common_variations(aliases[i])) :
                     i \in DOMAIN aliases }

get_all_tune_variations(aliases_map, tune_name) ==
    variations_of(get_tune_aliases(aliases_map, tune_name))

(***************************************************************************)
(* local_file_search: the file candidate index.  A path is a str; a        *)
(* directory is [exists, listing], the listing being the absolute paths of *)
(* the files under it in traversal order.                                  *)
(***************************************************************************)
mp3 == <<".", "m", "p", "3">>

flac == <<".", "f", "l", "a", "c">>

AUDIO_EXTENSIONS ==
    { mp3, <<".","m","p","4">>, <<".","m","4","a">>, flac,
      <<".","w","a","v">>, <<".","o","g","g">>, <<".","o","p","u","s">>,
      <<".","a","a","c">>, <<".","w","m","a">> }

\* str.upper()
Upper(s) == [i \in 1..Len(s) |-> UpperChar(s[i])]

\* Path.rglob("*" + ext): the listed files whose name ends with ext; fold
\* says whether the platform matches patterns case-insensitively
Glob(listing, ext, fold) ==
    SelectSeq(listing,
              LAMBDA f : IF fold THEN EndsWith(Lower(f), Lower(ext))
                         ELSE EndsWith(f, ext))

\* find_audio_files: ext_order is the iteration order of the set
\* AUDIO_EXTENSIONS in this process
find_audio_files(directory, ext_order, fold) ==
    IF ~directory.exists THEN <<>>
    ELSE Concat([k \in 1..Len(ext_order) |->
                    Glob(directory.listing, ext_order[k], fold)
                    \o Glob(directory.listing, Upper(ext_order[k]), fold)])

\* the 1-based index of the last occurrence of the character c, or 0
LastIndex(s, c) ==
    LET hits == { i \in 1..Len(s) : s[i] = c }
    IN  IF hits = {} THEN 0 ELSE CHOOSE i \in hits : \A j \in hits : i >= j

\* Path.stem: the final component without its last suffix
Stem(file_path) ==
    LET name == From(file_path, LastIndex(file_path, "/"))
        dot == LastIndex(name, ".")
    IN  IF 1 < dot /\ dot < Len(name) THEN SubSeq(name, 1, dot - 1) ELSE name

\* re.sub(r'^\d+[-_\s]*', '', name)
RECURSIVE DropWhile(_, _)
DropWhile(s, chars) ==
    IF s # <<>> /\ Head(s) \in chars THEN DropWhile(Tail(s), chars) ELSE s

RemoveLeadingNumber(name) ==
    IF name # <<>> /\ Head(name) \in Digits
    THEN DropWhile(DropWhile(name, Digits), {"-", "_"} \cup Whitespace)
    ELSE name

extract_tune_name_from_path(file_path) ==
    Strip(CollapseWhitespace(
        CharsToSpace(RemoveLeadingNumber(Stem(file_path)), {"-", "_"})))

(***************************************************************************)
(* local_file_search.is_tune_in_composite_name                             *)
(***************************************************************************)
separators ==
    << <<" ","_"," ">>, <<" ","/"," ">>, <<" ","-"," ">>, <<","," ">>,
       <<" ","&"," ">>, <<" ","a","n","d"," ">> >>

\* parts after the first k separators have each been applied to every part
RECURSIVE SplitParts(_, _)
SplitParts(composite_name, k) ==
    IF k = 0 THEN <<composite_name>>
    ELSE LET parts == SplitParts(composite_name, k - 1)
         IN  Concat([i \in 1..Len(parts) |-> Split(parts[i], separators[k])])

\* buggy variant: only the first separator that occurs is used to split
FirstSeparatorParts(composite_name) ==
    LET found == { k \in 1..Len(separators) :
                       Contains(composite_name, separators[k]) }
    IN  IF found = {} THEN <<composite_name>>
        ELSE Split(composite_name,
                   separators[CHOOSE k \in found : \A j \in found : k <= j])

\* [p.strip() for p in parts if p.strip()]
CleanParts(parts) ==
    LET stripped == [i \in 1..Len(parts) |-> Strip(parts[i])]
    IN  SelectSeq(stripped, LAMBDA q : q # <<>>)

\* lines 90-93: some part is similar enough to the tune name
any_part_matches(tune_name, parts, threshold) ==
    \E i \in 1..Len(parts) :
        GE(calculate_similarity(tune_name, parts[i]), threshold)

is_tune_in_composite_name_first(tune_name, composite_name, threshold) ==
    \/ Contains(Lower(composite_name), Lower(tune_name))
    \/ any_part_matches(tune_name,
                        CleanParts(FirstSeparatorParts(composite_name)),
                        threshold)

is_tune_in_composite_name(tune_name, composite_name, threshold) ==
    \/ Contains(Lower(composite_name), Lower(tune_name))
    \/ any_part_matches(tune_name,
                        CleanParts(SplitParts(composite_name, Len(separators))),
                        threshold)

(***************************************************************************)
(* local_file_search.search_local_files and find_tunes_for_set             *)
(***************************************************************************)
\* the composite-match score 0.9
CompositeScore == Frac(9, 10)

\* lines 148-163: the best score of one candidate name over the search terms
\* (the loop of search_single_tune, lines 81-96, is the same statements)
\* lines 156-158: the score of the first result, if there is one
first_score(results) == IF results # <<>> THEN results[1][2] ELSE Zero

\* max() of a non-empty set of scores
MaxOf(scores) == CHOOSE x \in scores : \A y \in scores : GE(x, y)

\* lines 151-163 for one search term: what the term can raise best_score to
term_score(search_term, extracted_name, threshold) ==
    Max(first_score(fuzzy_match_tune(search_term, <<extracted_name>>,
                                     Zero, None)),
        IF is_tune_in_composite_name(search_term, extracted_name, threshold)
        THEN CompositeScore ELSE Zero)

\* buggy variant: the composite check is left out
best_score_no_composite(search_terms, extracted_name, threshold) ==
    MaxOf({ first_score(fuzzy_match_tune(t, <<extracted_name>>, Zero, None)) :
                t \in search_terms }
          \cup {Zero})

best_score(search_terms, extracted_name, threshold) ==
    MaxOf({ term_score(t, extracted_name, threshold) : t \in search_terms }
          \cup {Zero})

\* the first occurrence of each path, in order
RECURSIVE UniquePaths(_, _)
UniquePaths(files, seen_paths) ==
    IF files = <<>> THEN <<>>
    ELSE IF Head(files) \in seen_paths THEN UniquePaths(Tail(files), seen_paths)
    ELSE <<Head(files)>>
             \o UniquePaths(Tail(files), seen_paths \cup {Head(files)})

\* unique_matches: one (path, score) per path, at the place of the path's
\* first match, holding the highest score seen for it
RECURSIVE UniqueMatches(_)
UniqueMatches(matches) ==
    IF matches = <<>> THEN <<>>
    ELSE LET rest == UniqueMatches(SubSeq(matches, 1, Len(matches) - 1))
             last == matches[Len(matches)]
             at == { i \in 1..Len(rest) : rest[i][1] = last[1] }
         IN  IF at = {} THEN Append(rest, last)
             ELSE LET i == CHOOSE j \in at : TRUE
                  IN  IF GT(last[2], rest[i][2])
                      THEN [rest EXCEPT ![i] = last] ELSE rest

\* buggy variant: the matches are left in scan order, not sorted by score
rank_candidates_unsorted(search_terms, candidates, threshold, max_results) ==
    Cap(UniqueMatches(SelectSeq(
            [i \in 1..Len(candidates) |->
                <<candidates[i][1],
                  best_score(search_terms, candidates[i][2], threshold)>>],
            LAMBDA m : GE(m[2], threshold))),
        max_results)

\* lines 146-184 (and 79-115 of search_single_tune): score, filter,
\* de-duplicate, sort and cap the candidates
rank_candidates(search_terms, candidates, threshold, max_results) ==
    Cap(SortByScore(UniqueMatches(SelectSeq(
            [i \in 1..Len(candidates) |->
                <<candidates[i][1],
                  best_score(search_terms, candidates[i][2], threshold)>>],
            LAMBDA m : GE(m[2], threshold)))),
        max_results)

\* buggy variant: a directory that does not exist aborts the whole scan
scan_candidates_abort(directories, fs) ==
    LET all_files ==
            Concat([i \in 1..Len(directories) |->
                       find_audio_files(fs.dirs[directories[i]],
                                        fs.ext_order, fs.fold)])
        unique_files == UniquePaths(all_files, {})
    IN  IF \E i \in DOMAIN directories : ~fs.dirs[directories[i]].exists
        THEN <<>>
        ELSE [i \in 1..Len(unique_files) |->
                 <<unique_files[i],
                   extract_tune_name_from_path(unique_files[i])>>]

\* buggy variant: repeated paths are kept
scan_candidates_repeated(directories, fs) ==
    LET all_files ==
            Concat([i \in 1..Len(directories) |->
                       find_audio_files(fs.dirs[directories[i]],
                                        fs.ext_order, fs.fold)])
    IN  [i \in 1..Len(all_files) |->
            <<all_files[i], extract_tune_name_from_path(all_files[i])>>]

\* lines 127-143: scan every directory, drop repeated paths, derive names
scan_candidates(directories, fs) ==
    LET all_files ==
            Concat([i \in 1..Len(directories) |->
                       find_audio_files(fs.dirs[directories[i]],
                                        fs.ext_order, fs.fold)])
        unique_files == UniquePaths(all_files, {})
    IN  [i \in 1..Len(unique_files) |->
            <<unique_files[i], extract_tune_name_from_path(unique_files[i])>>]

search_local_files(tune_name, directories, use_aliases, threshold, max_results, aliases_map, fs) ==
    LET search_terms ==
            IF use_aliases THEN get_all_tune_variations(aliases_map, tune_name)
            ELSE Range(find_common_variations(tune_name))
    IN  rank_candidates(search_terms, scan_candidates(directories, fs),
                        threshold, max_results)

(***************************************************************************)
(* type_aware_scoring: score_by_type and filter_by_type.  An identity is   *)
(* [tune_id, type]; a match is <<path, score, reason>>.                    *)
(***************************************************************************)
\* type_keywords, in the order of the dict: <<type, keywords>>
type_keywords ==
 <<
    << <<"r","e","e","l">>,
       << <<"r","e","e","l">>,
          <<"r","e","e","l","s">>,
          <<"1","2","0","b","p","m">>,
          <<"1","1","6","b","p","m">>,
          <<"f","a","s","t">> >> >>,
    << <<"j","i","g">>,
       << <<"j","i","g">>,
          <<"j","i","g","s">>,
          <<"6","/","8">> >> >>,
    << <<"s","l","i","p"," ","j","i","g">>,
       << <<"s","l","i","p">>,
          <<"s","l","i","p"," ","j","i","g">>,
          <<"s","l","i","p","-","j","i","g">>,
          <<"9","/","8">>,
          <<"h","o","p"," ","j","i","g">> >> >>,
    << <<"s","l","i","d","e">>,
       << <<"s","l","i","d","e">>,
          <<"s","l","i","d","e","s">>,
          <<"1","2","/","8">> >> >>,
    << <<"h","o","r","n","p","i","p","e">>,
       << <<"h","o","r","n","p","i","p","e">>,
          <<"h","o","r","n","p","i","p","e","s">> >> >>,
    << <<"p","o","l","k","a">>,
       << <<"p","o","l","k","a">>,
          <<"p","o","l","k","a","s">> >> >>,
    << <<"w","a","l","t","z">>,
       << <<"w","a","l","t","z">>,
          <<"w","a","l","t","z","e","s">>,
          <<"3","/","4">> >> >>,
    << <<"m","a","z","u","r","k","a">>,
       << <<"m","a","z","u","r","k","a">>,
          <<"m","a","z","u","r","k","a","s">> >> >>,
    << <<"b","a","r","n","d","a","n","c","e">>,
       << <<"b","a","r","n","d","a","n","c","e">>,
          <<"b","a","r","n"," ","d","a","n","c","e">> >> >>,
    << <<"s","t","r","a","t","h","s","p","e","y">>,
       << <<"s","t","r","a","t","h","s","p","e","y">>,
          <<"s","t","r","a","t","h","s","p","e","y","s">> >> >>
 >>

\* type_keywords[t] if t is a key, else no keywords
keywords_of(t) ==
    LET at == { i \in 1..Len(type_keywords) : type_keywords[i][1] = t }
    IN  IF at = {} THEN <<>> ELSE type_keywords[CHOOSE i \in at : TRUE][2]

\* some keyword of type t occurs in path_str
has_keyword(path_str, t) ==
    \E k \in 1..Len(keywords_of(t)) : Contains(path_str, keywords_of(t)[k])

\* the factors 1.2, 0.8 and 1.1
PreferredBoost == Frac(12, 10)

WrongTypePenalty == Frac(8, 10)

AnyTypeBoost == Frac(11, 10)

\* buggy variant: the preferred-type boost is not capped at 1.0
score_by_type_uncapped(file_path, base_score, tune_types, preferred_type) ==
    LET path_str == Lower(file_path)
    IN  IF Len(tune_types) <= 1 THEN base_score
        ELSE IF preferred_type # None /\ preferred_type[1] # <<>>
        THEN IF has_keyword(path_str, Lower(preferred_type[1]))
             THEN Times(base_score, PreferredBoost)
             ELSE IF \E i \in 1..Len(tune_types) :
                         /\ Lower(tune_types[i].type) # Lower(preferred_type[1])
                         /\ has_keyword(path_str, Lower(tune_types[i].type))
                  THEN Times(base_score, WrongTypePenalty)
                  ELSE base_score
        ELSE IF \E i \in 1..Len(tune_types) :
                    has_keyword(path_str, Lower(tune_types[i].type))
             THEN Min(Times(base_score, AnyTypeBoost), One)
             ELSE Min(base_score, One)

\* buggy variant: a file of a different catalogued type is not penalised
score_by_type_nopenalty(file_path, base_score, tune_types, preferred_type) ==
    LET path_str == Lower(file_path)
    IN  IF Len(tune_types) <= 1 THEN base_score
        ELSE IF preferred_type # None /\ preferred_type[1] # <<>>
        THEN IF has_keyword(path_str, Lower(preferred_type[1]))
             THEN Min(Times(base_score, PreferredBoost), One)
             ELSE base_score
        ELSE IF \E i \in 1..Len(tune_types) :
                    has_keyword(path_str, Lower(tune_types[i].type))
             THEN Min(Times(base_score, AnyTypeBoost), One)
             ELSE Min(base_score, One)

score_by_type(file_path, base_score, tune_types, preferred_type) ==
    LET path_str == Lower(file_path)
    IN  IF Len(tune_types) <= 1 THEN base_score
        ELSE IF preferred_type # None /\ preferred_type[1] # <<>>
        THEN LET preferred_type_lower == Lower(preferred_type[1])
             IN  IF has_keyword(path_str, preferred_type_lower)
                 THEN Min(Times(base_score, PreferredBoost), One)
                 ELSE IF \E i \in 1..Len(tune_types) :
                             /\ Lower(tune_types[i].type) # preferred_type_lower
                             /\ has_keyword(path_str, Lower(tune_types[i].type))
                      THEN Times(base_score, WrongTypePenalty)
                      ELSE base_score
        ELSE IF \E i \in 1..Len(tune_types) :
                    has_keyword(path_str, Lower(tune_types[i].type))
             THEN Min(Times(base_score, AnyTypeBoost), One)
             ELSE Min(base_score, One)

type_match == <<" ","[","t","y","p","e"," ","m","a","t","c","h","]">>

type_mismatch == <<" ","[","t","y","p","e"," ","m","i","s","m","a","t","c","h","]">>

\* lines 113-123: one re-scored match
rescore(match, tune_types, preferred_type) ==
    LET new_score == score_by_type(match[1], match[2], tune_types,
                                   preferred_type)
        reason == match[3]
    IN  <<match[1], new_score,
          IF new_score # match[2] /\ reason # None /\ reason[1] # <<>>
          THEN IF GT(new_score, match[2]) THEN Some(reason[1] \o type_match)
               ELSE Some(reason[1] \o type_mismatch)
          ELSE reason>>

filter_by_type(matches, tune_types, preferred_type) ==
    IF Len(tune_types) <= 1 THEN matches
    ELSE SortByScore([i \in 1..Len(matches) |->
                         rescore(matches[i], tune_types, preferred_type)])

(***************************************************************************)
(* Specification SpecNormalize: normalize_tune_name applied to names built *)
(* from the fragments tune names are made of.                              *)
(***************************************************************************)
MaxNameTokens == 3

NameTokens ==
    { <<"T","h","e"," ">>, the_, <<",", " ", "T", "h", "e">>, comma_the,
      <<"K">>, <<"e">>, <<" ">>, <<"-">>, <<"'">>, <<",">> }

TuneNames == { Concat(ts) : ts \in SeqsUpTo(NameTokens, MaxNameTokens) }

CacheIdle ==
    /\ git_invoked = FALSE
    /\ cache_file = <<>>
    /\ aliases_file = Absent
    /\ aliases_cache = <<>>
    /\ cache_time = <<>>
    /\ now = 0

BatchIdle ==
    /\ seq_next = 0
    /\ seq_results = <<>>
    /\ par_pc = "idle"
    /\ file_candidates = <<>>
    /\ search_tasks = <<>>
    /\ futures = <<>>
    /\ par_results = <<>>
    /\ max_workers = 0

InitNormalize ==
    /\ pc = "start"
    /\ inp \in [name : TuneNames]
    /\ out = <<>>
    /\ BatchIdle
    /\ CacheIdle

\* first = normalize_tune_name(name)
NormalizeOnce ==
    /\ pc = "start"
    /\ pc' = "once"
    /\ out' = [first |-> normalize_tune_name(inp.name)]
    /\ UNCHANGED <<inp, batchVars, cacheVars>>

\* second = normalize_tune_name(first)
NormalizeAgain ==
    /\ pc = "once"
    /\ pc' = "twice"
    /\ out' = [first |-> out.first,
               second |-> normalize_tune_name(out.first)]
    /\ UNCHANGED <<inp, batchVars, cacheVars>>

\* normalize_tune_name("The " + name) and normalize_tune_name(name + ", The")
NormalizeTheForms ==
    /\ pc = "start"
    /\ pc' = "forms"
    /\ out' = [prefixed |->
                   normalize_tune_name(<<"T","h","e"," ">> \o inp.name),
               suffixed |->
                   normalize_tune_name(inp.name \o <<",", " ", "T", "h", "e">>)]
    /\ UNCHANGED <<inp, batchVars, cacheVars>>

NextNormalize == NormalizeOnce \/ NormalizeAgain \/ NormalizeTheForms

SpecNormalize == InitNormalize /\ [][NextNormalize]_vars

\* C1: normalize is idempotent: normalizing a normalized name changes nothing
\* (stated as claimed; the code violates it, e.g. for "the K")
C1_Idempotent == pc = "twice" => out.second = out.first

\* C2: "The X" and "X, The" normalize to the identical string, for every X
\* (stated as claimed; the code violates it, e.g. for X = "K")
C2_TheFormsAgree == pc = "forms" => out.prefixed = out.suffixed

(***************************************************************************)
(* Specification SpecSimilarity: calculate_similarity on pairs of strings. *)
(***************************************************************************)
MaxSimTokens == 3

SimTokens == { <<"a">>, <<"b">>, <<"c">>, <<",">> }

SimStrings == { Concat(ts) : ts \in SeqsUpTo(SimTokens, MaxSimTokens) }

InitSimilarity ==
    /\ pc = "start"
    /\ inp \in [str1 : SimStrings, str2 : SimStrings]
    /\ out = <<>>
    /\ BatchIdle
    /\ CacheIdle

\* forward = calculate_similarity(str1, str2)
Similarity ==
    /\ pc = "start"
    /\ pc' = "forward"
    /\ out' = [forward |-> calculate_similarity(inp.str1, inp.str2)]
    /\ UNCHANGED <<inp, batchVars, cacheVars>>

\* backward = calculate_similarity(str2, str1)
SimilarityReversed ==
    /\ pc = "forward"
    /\ pc' = "both"
    /\ out' = [forward |-> out.forward,
               backward |-> calculate_similarity(inp.str2, inp.str1)]
    /\ UNCHANGED <<inp, batchVars, cacheVars>>

NextSimilarity == Similarity \/ SimilarityReversed

SpecSimilarity == InitSimilarity /\ [][NextSimilarity]_vars

\* C3: similarity is symmetric: similarity(a, b) = similarity(b, a)
\* (stated as claimed; the matching-blocks ratio violates it, e.g. for
\* "aba" and "bca")
C3_Symmetric == pc = "both" => out.backward = out.forward

\* C4: two strings with equal normalized forms score exactly 1.0 (so
\* similarity(s, s) = 1.0), and every score lies in [0, 1]
C4_ExactAndBounded ==
    pc \in {"forward", "both"} =>
        /\ normalize_tune_name(inp.str1) = normalize_tune_name(inp.str2)
               => out.forward = One
        /\ inp.str1 = inp.str2 => out.forward = One
        /\ GE(out.forward, Zero) /\ GE(One, out.forward)

\* C4 witness: two different strings with one normalized form were scored,
C4_Witness ==
    /\ pc = "forward"
    /\ inp.str1 # inp.str2
    /\ normalize_tune_name(inp.str1) = normalize_tune_name(inp.str2)
    /\ normalize_tune_name(inp.str1) # <<>>
    /\ out.forward = One

(***************************************************************************)
(* Specification SpecComposite: is_tune_in_composite_name on track names   *)
(* built from tune fragments and the separators.                           *)
(***************************************************************************)
MaxCompositeTokens == 4

CompositeTokens == Range(separators) \cup { <<"a","c">>, <<"x">> }

Kesh_Jig == <<"K","e","s","h"," ","J","i","g">>

Carraroe_Kesh_Leaf ==
    <<"C","a","r","r","a","r","o","e"," ","J","i","g"," ","/"," ">>
    \o Kesh_Jig \o <<" ","/"," ","L","e","a","f"," ","R","e","e","l">>

CompositeNames ==
    { Concat(ts) : ts \in SeqsUpTo(CompositeTokens, MaxCompositeTokens) }

CompositeTargets == { <<"a","b">>, <<"A","C">> }

Thresholds == { Frac(1, 2), Frac(17, 20) }

InitComposite ==
    /\ pc = "start"
    /\ inp \in [tune_name : CompositeTargets, composite_name : CompositeNames,
                threshold : Thresholds]
               \cup { [tune_name |-> Kesh_Jig,
                       composite_name |-> Carraroe_Kesh_Leaf,
                       threshold |-> Frac(17, 20)] }
    /\ out = <<>>
    /\ BatchIdle
    /\ CacheIdle

\* found = is_tune_in_composite_name(tune_name, composite_name, threshold)
CompositeCheck ==
    /\ pc = "start"
    /\ pc' = "checked"
    /\ out' = [found |-> is_tune_in_composite_name(
                             inp.tune_name, inp.composite_name, inp.threshold)]
    /\ UNCHANGED <<inp, batchVars, cacheVars>>

NextComposite == CompositeCheck

SpecComposite == InitComposite /\ [][NextComposite]_vars

\* The claim's own terms.  A left-to-right scan of s cuts at position q when
\* sep occurs there and no cut overlaps it from the left.
RECURSIVE CutAt(_, _, _)
CutAt(s, sep, q) ==
    /\ q >= 1
    /\ q + Len(sep) - 1 <= Len(s)
    /\ SubSeq(s, q, q + Len(sep) - 1) = sep
    /\ \A r \in (q - Len(sep) + 1)..(q - 1) : ~CutAt(s, sep, r)

\* the fragments of s between the cuts
Pieces(s, sep) ==
    LET cuts == { q \in 1..Len(s) : CutAt(s, sep, q) }
        starts == {1} \cup { q + Len(sep) : q \in cuts }
        stop(a) == LET later == { q \in cuts : q >= a }
                   IN  IF later = {} THEN Len(s)
                       ELSE (CHOOSE q \in later : \A r \in later : q <= r) - 1
    IN  { SubSeq(s, a, stop(a)) : a \in starts }

\* the fragments after separators 1..k, each applied to all earlier fragments
RECURSIVE Fragments(_, _)
Fragments(s, k) ==
    IF k = 0 THEN {s}
    ELSE UNION { Pieces(p, separators[k]) : p \in Fragments(s, k - 1) }

IsSubstring(t, s) ==
    \E i \in 1..(Len(s) + 1) : \E j \in (i - 1)..Len(s) : SubSeq(s, i, j) = t

\* C10: is_tune_in_composite_name is true exactly when the lower-cased
\* target is a substring of the lower-cased composite, or some non-empty
\* trimmed fragment of the full split (every separator, in order, applied to
\* all fragments of the earlier ones) has similarity >= threshold; and it is
\* true for ("Kesh Jig", "Carraroe Jig / Kesh Jig / Leaf Reel", 0.85)
C10_CompositeIff ==
    pc = "checked" =>
        /\ out.found <=>
            \/ IsSubstring(Lower(inp.tune_name), Lower(inp.composite_name))
            \/ \E p \in Fragments(inp.composite_name, Len(separators)) :
                   /\ Strip(p) # <<>>
                   /\ GE(calculate_similarity(inp.tune_name, Strip(p)),
                         inp.threshold)
        /\ (/\ inp.tune_name = Kesh_Jig
            /\ inp.composite_name = Carraroe_Kesh_Leaf
            /\ inp.threshold = Frac(17, 20)) => out.found

\* C10 witness: a target that is no substring of the composite is found in
\* a fragment that only splitting on two different separators isolates
C10_Witness ==
    /\ pc = "checked"
    /\ out.found
    /\ ~IsSubstring(Lower(inp.tune_name), Lower(inp.composite_name))
    /\ Cardinality({ k \in 1..Len(separators) :
                       Contains(inp.composite_name, separators[k]) }) >= 2
    /\ ~is_tune_in_composite_name_first(inp.tune_name, inp.composite_name,
                                        inp.threshold)

(***************************************************************************)
(* Specification SpecAliases: alias lookups against the aliases file in    *)
(* every state, through the cached map.                                    *)
(***************************************************************************)
MaxRows == 3

Kesh == <<"K","e","s","h">>

kesh == <<"k","e","s","h">>

The_Kesh == <<"T","h","e"," ">> \o Kesh

the_kesh == the_ \o kesh

AliasNames == { Kesh, kesh, The_Kesh }

TuneIds == {1, 2}

\* the canonical name the catalog gives each tune_id
CanonicalName == [t \in TuneIds |-> IF t = 1 THEN Kesh ELSE The_Kesh]

Rows ==
    { [tune_id |-> t, alias |-> a, name |-> CanonicalName[t]] :
          t \in TuneIds, a \in AliasNames }

Datasets == { Readable(rows) : rows \in SeqsUpTo(Rows, MaxRows) }

\* what a download of TheSession data can deliver
RemoteDatasets ==
    { Readable(<<[tune_id |-> 1, alias |-> The_Kesh, name |-> Kesh]>>) }

QueryNames ==
    AliasNames \cup { the_kesh, <<" ">> \o Kesh, <<"L","e","a","f">> }

InitAliases ==
    /\ pc = "start"
    /\ inp = <<>>
    /\ out = <<>>
    /\ aliases_file \in {Absent, Unreadable} \cup Datasets
    /\ aliases_cache = None
    /\ cache_time = None
    /\ now = 0
    /\ git_invoked = FALSE
    /\ cache_file = <<>>
    /\ BatchIdle

\* aliases = get_tune_aliases(tune_name)
GetTuneAliases ==
    \E tune_name \in QueryNames :
        /\ pc \in {"start", "aliases"}
        /\ get_aliases_map(RemoteDatasets)
        /\ pc' = "aliases"
        /\ inp' = [tune_name |-> tune_name]
        /\ out' = [aliases |-> get_tune_aliases(aliases_cache'[1], tune_name)]
        /\ UNCHANGED <<now, batchVars>>

\* variations = get_all_tune_variations(tune_name)
GetAllTuneVariations ==
    \E tune_name \in QueryNames :
        /\ pc = "start"
        /\ get_aliases_map(RemoteDatasets)
        /\ pc' = "variations"
        /\ inp' = [tune_name |-> tune_name]
        /\ out' = [variations |->
                       get_all_tune_variations(aliases_cache'[1], tune_name)]
        /\ UNCHANGED <<now, batchVars>>

NextAliases == GetTuneAliases \/ GetAllTuneVariations

SpecAliases == InitAliases /\ [][NextAliases]_vars

\* C8: get_tune_aliases returns a non-empty list that contains tune_name
\* exactly as given, and exactly [tune_name] when the lower-cased, trimmed
\* name is no key of the alias map
C8_AliasesIncludeName ==
    pc = "aliases" =>
        /\ out.aliases # <<>>
        /\ \E i \in DOMAIN out.aliases : out.aliases[i] = inp.tune_name
        /\ Strip(Lower(inp.tune_name)) \notin DOMAIN aliases_cache[1]
               => out.aliases = <<inp.tune_name>>

\* C8 witness: a name known to the dataset in another letter case was looked
\* up and added to its group
C8_Witness ==
    /\ pc = "aliases"
    /\ aliases_file.state = "readable"
    /\ Strip(Lower(inp.tune_name)) \in DOMAIN aliases_cache[1]
    /\ inp.tune_name \notin Range(aliases_cache[1][Strip(Lower(inp.tune_name))])
    /\ Len(out.aliases) >= 3

\* C9: the set returned by get_all_tune_variations holds no two entries that
\* differ only by letter case, and for a name starting with "The " it holds
\* the name with that prefix removed
\* (stated as claimed; the code violates the first part)
C9_VariationsDeduplicated ==
    pc = "variations" =>
        /\ \A v, w \in out.variations : Lower(v) = Lower(w) => v = w
        /\ StartsWith(inp.tune_name, <<"T","h","e"," ">>)
               => From(inp.tune_name, 4) \in out.variations

(***************************************************************************)
(* Specification SpecType: score_by_type and filter_by_type on two matched *)
(* files.                                                                  *)
(***************************************************************************)
MaxIdentities == 2

reel == <<"r","e","e","l">>

jig == <<"j","i","g">>

TypePaths ==
    { <<"d","/","a"," ","r","e","e","l",".","m","p","3">>,
      <<"d","/","a"," ","j","i","g",".","m","p","3">>,
      <<"d","/","f","a","s","t"," ","j","i","g",".","m","p","3">>,
      <<"d","/","a",".","m","p","3">>,
      <<"R","e","e","l","s","/","a"," ","j","i","g",".","m","p","3">>,
      <<"d","/","a"," ","s","l","i","p",".","f","l","a","c">> }

TypeScores == { Zero, Frac(1, 2), Frac(17, 20), One }

Identities ==
    { [tune_id |-> 1, type |-> reel], [tune_id |-> 2, type |-> jig],
      [tune_id |-> 3, type |-> <<"S","l","i","p"," ","J","i","g">>] }

IdentityLists ==
    { ts \in SeqsUpTo(Identities, MaxIdentities) :
          \A i, j \in DOMAIN ts : i # j => ts[i].tune_id # ts[j].tune_id }

PreferredTypes ==
    { None, Some(<<>>), Some(reel), Some(<<"R","e","e","l">>), Some(jig),
      Some(<<"w","a","l","t","z">>) }

Reasons == { None, Some(<<"f","u","z","z","y">>) }

InitType ==
    /\ pc = "start"
    /\ \E p1, p2 \in TypePaths, s1, s2 \in TypeScores, r \in Reasons :
           inp \in [matches : { << <<p1, s1, r>>, <<p2, s2, r>> >> },
                    tune_types : IdentityLists,
                    preferred_type : PreferredTypes]
    /\ out = <<>>
    /\ BatchIdle
    /\ CacheIdle

\* scores[i] = score_by_type(path_i, score_i, tune_types, preferred_type)
ScoreByType ==
    /\ pc = "start"
    /\ pc' = "scored"
    /\ out' = [scores |->
                  [i \in 1..Len(inp.matches) |->
                      score_by_type(inp.matches[i][1], inp.matches[i][2],
                                    inp.tune_types, inp.preferred_type)]]
    /\ UNCHANGED <<inp, batchVars, cacheVars>>

\* ranked = filter_by_type(matches, tune_types, preferred_type)
FilterByType ==
    /\ pc = "start"
    /\ pc' = "filtered"
    /\ out' = [ranked |-> filter_by_type(inp.matches, inp.tune_types,
                                         inp.preferred_type)]
    /\ UNCHANGED <<inp, batchVars, cacheVars>>

NextType == ScoreByType \/ FilterByType

SpecType == InitType /\ [][NextType]_vars

\* the case of C7: two identities, one reel and one jig; preferred type
\* "reel"; match r is a file whose path contains "reel", match j one whose
\* path contains "jig" (and not "reel"); equal base scores
C7_Case(r, j) ==
    /\ { inp.tune_types[i].type : i \in DOMAIN inp.tune_types } = {reel, jig}
    /\ Len(inp.tune_types) = 2
    /\ inp.preferred_type = Some(reel)
    /\ Contains(Lower(inp.matches[r][1]), reel)
    /\ Contains(Lower(inp.matches[j][1]), jig)
    /\ ~Contains(Lower(inp.matches[j][1]), reel)
    /\ inp.matches[r][2] = inp.matches[j][2]

\* the reel file scores strictly higher and is ranked above the jig file
C7_ReelAbove(r, j) ==
    /\ pc = "scored" => GT(out.scores[r], out.scores[j])
    /\ pc = "filtered" =>
           \E a, b \in 1..Len(out.ranked) :
               /\ a < b
               /\ out.ranked[a][1] = inp.matches[r][1]
               /\ out.ranked[b][1] = inp.matches[j][1]
               /\ GT(out.ranked[a][2], out.ranked[b][2])

\* C7 as claimed: in that case the "reel" file gets a strictly higher score
\* and is ranked above the "jig" file
\* (violated for a base score of 0, and for a "jig" file whose path holds
\* another reel cue such as "fast")
C7_Original ==
    \A r, j \in {1, 2} :
        (pc \in {"scored", "filtered"} /\ C7_Case(r, j)) => C7_ReelAbove(r, j)

\* C7 amended: the same for a positive base score and a "jig" file whose
\* path holds none of the reel cues (reel, reels, 120bpm, 116bpm, fast)
C7_Amended ==
    \A r, j \in {1, 2} :
        (/\ pc \in {"scored", "filtered"}
         /\ C7_Case(r, j)
         /\ GT(inp.matches[r][2], Zero)
         /\ ~has_keyword(Lower(inp.matches[j][1]), reel))
            => C7_ReelAbove(r, j)

\* C7 witness: the two files of the amended case were re-ranked, the "jig"
\* file having been listed first
C7_Witness ==
    /\ pc = "filtered"
    /\ C7_Case(2, 1)
    /\ GT(inp.matches[2][2], Zero)
    /\ ~has_keyword(Lower(inp.matches[1][1]), reel)
    /\ out.ranked[1][1] = inp.matches[2][1]

(***************************************************************************)
(* Specification SpecSearch: search_local_files over a directory tree,     *)
(* with and without a result cap.                                          *)
(***************************************************************************)
MaxFiles == 2

MaxCap == 2

\* files that can be on disk under the directory /d
f_track == <<"/","d","/","1","-","K","e","s","h",".","m","p","3">>

f_upper == <<"/","d","/","T","h","e"," ","K","e","s","h",".","F","L","A","C">>

f_set == <<"/","d","/","L","e","a","f"," ","a","n","d"," ","K","e","s","h",".","f","l","a","c">>

f_near == <<"/","d","/","K","i","s","h",".","m","p","3">>

f_text == <<"/","d","/","K","e","s","h",".","t","x","t">>

\* the order in which a traversal of /d meets them
TraversalOrder == << f_track, f_upper, f_set, f_near, f_text >>

FilesOnDisk == Range(TraversalOrder)

\* the directory listings: at most MaxFiles of the files
Listings ==
    { SelectSeq(TraversalOrder, LAMBDA f : f \in S) :
          S \in { T \in SUBSET FilesOnDisk : Cardinality(T) <= MaxFiles } }

dir_d == <<"/","d">>

dir_missing == <<"/","m">>

\* a disk: the directories by name, and whether patterns match
\* case-insensitively on it
Disk(l, c) ==
    [dirs |-> (dir_d :> [exists |-> TRUE, listing |-> l])
              @@ (dir_missing :> [exists |-> FALSE, listing |-> <<>>]),
     fold |-> c]

Disks == { Disk(l, c) : l \in Listings, c \in BOOLEAN }

\* iteration orders of AUDIO_EXTENSIONS: the files on disk only tell .mp3
\* and .flac apart
OtherExtensions ==
    << <<".","m","p","4">>, <<".","m","4","a">>, <<".","w","a","v">>,
       <<".","o","g","g">>, <<".","o","p","u","s">>, <<".","a","a","c">>,
       <<".","w","m","a">> >>

ExtOrders ==
    { <<mp3, flac>> \o OtherExtensions, <<flac, mp3>> \o OtherExtensions }

\* the disk as a process sees it: ext_order is the iteration order of the
\* set AUDIO_EXTENSIONS in that process
FileSystem(disk, ext_order) ==
    [dirs |-> disk.dirs, fold |-> disk.fold, ext_order |-> ext_order]

DirectoryLists == { <<dir_missing, dir_d>>, <<dir_d, dir_d>> }

Leaf == <<"L","e","a","f">>

SearchTunes == { Kesh, the_kesh, Leaf }

DefaultThreshold == Frac(7, 10)

Caps == { None } \cup { Some(n) : n \in 0..MaxCap }

\* the aliases file of the search specifications
SearchDataset ==
    Readable(<<[tune_id |-> 1, alias |-> <<"K","i","s","h">>, name |-> The_Kesh]>>)

InitSearch ==
    /\ pc = "start"
    /\ inp \in [tune_name : SearchTunes, directories : DirectoryLists,
                use_aliases : BOOLEAN, threshold : {DefaultThreshold},
                max_results : Caps, disk : Disks, ext_order : ExtOrders]
    /\ out = <<>>
    /\ aliases_file = SearchDataset
    /\ aliases_cache = None
    /\ cache_time = None
    /\ now = 0
    /\ git_invoked = FALSE
    /\ cache_file = <<>>
    /\ BatchIdle

\* the alias lookup of a search: get_all_tune_variations() calls
\* get_aliases_map(); it runs only with use_aliases
SearchAliases(use_aliases) ==
    IF use_aliases THEN get_aliases_map({})
    ELSE UNCHANGED <<aliases_file, aliases_cache, cache_time, git_invoked,
                     cache_file>>

\* the map a search reads
SearchMap(use_aliases, cache) == IF use_aliases THEN cache[1] ELSE EmptyMap

\* matches = search_local_files(tune_name, directories, use_aliases,
\*                              threshold, max_results=max_results)
SearchLocalFiles ==
    /\ pc = "start"
    /\ pc' = "capped"
    /\ SearchAliases(inp.use_aliases)
    /\ out' = [matches |->
                  search_local_files(inp.tune_name, inp.directories,
                      inp.use_aliases, inp.threshold, inp.max_results,
                      SearchMap(inp.use_aliases, aliases_cache'),
                      FileSystem(inp.disk, inp.ext_order))]
    /\ UNCHANGED <<inp, now, batchVars>>

\* all = search_local_files(tune_name, directories, use_aliases, threshold)
SearchUncapped ==
    /\ pc = "capped"
    /\ pc' = "both"
    /\ SearchAliases(inp.use_aliases)
    /\ out' = [matches |-> out.matches,
               all |->
                  search_local_files(inp.tune_name, inp.directories,
                      inp.use_aliases, inp.threshold, None,
                      SearchMap(inp.use_aliases, aliases_cache'),
                      FileSystem(inp.disk, inp.ext_order))]
    /\ UNCHANGED <<inp, now, batchVars>>

NextSearch == SearchLocalFiles \/ SearchUncapped

SpecSearch == InitSearch /\ [][NextSearch]_vars

\* C5: for every cap n >= 0 passed as max_results, search_local_files
\* returns at most n entries, and they are the first n entries of the
\* uncapped, sorted result
\* (stated as claimed; the code takes n = 0 for "no cap" and returns every
\* match)
C5_AtMostCap ==
    (pc \in {"capped", "both"} /\ inp.max_results # None) =>
        /\ Len(out.matches) <= inp.max_results[1]
        /\ pc = "both" => out.matches = Take(out.all, inp.max_results[1])

(***************************************************************************)
(* The batch resolver: find_tunes_for_set (sequential) and                 *)
(* find_tunes_for_set_async (a pool of worker processes).  A dict is the   *)
(* list of its (key, value) items in insertion order.                      *)
(***************************************************************************)
\* d[k] = v
DictSet(d, k, v) ==
    IF \E i \in DOMAIN d : d[i][1] = k
    THEN [i \in DOMAIN d |-> IF d[i][1] = k THEN <<k, v>> ELSE d[i]]
    ELSE Append(d, <<k, v>>)

\* the mapping a dict holds: dict equality ignores insertion order
Items(d) == Range(d)

\* max_results = overload if overload else 1
batch_max_results(overload) == IF Truthy(overload) THEN overload[1] ELSE 1

\* [match[0] for match in matches] if matches else []
match_paths(matches) == [i \in DOMAIN matches |-> matches[i][1]]

\* the search terms of a tune (async lines 161-165)
batch_search_terms(tune, use_aliases, aliases_map) ==
    IF use_aliases THEN get_all_tune_variations(aliases_map, tune)
    ELSE Range(find_common_variations(tune))

\* buggy variant: the worker does not cap its matches
search_single_tune_uncapped(tune_data, candidates) ==
    << tune_data.tune_name,
       SortByScore(UniqueMatches(SelectSeq(
           [i \in 1..Len(candidates) |->
               <<candidates[i][1],
                 best_score(tune_data.search_terms, candidates[i][2],
                            tune_data.threshold)>>],
           LAMBDA m : GE(m[2], tune_data.threshold)))) >>

\* search_single_tune(tune_data): candidates is the file_candidates list the
\* task tuple carries
search_single_tune(tune_data, candidates) ==
    << tune_data.tune_name,
       Cap(SortByScore(UniqueMatches(SelectSeq(
               [i \in 1..Len(candidates) |->
                   <<candidates[i][1],
                     best_score(tune_data.search_terms, candidates[i][2],
                                tune_data.threshold)>>],
               LAMBDA m : GE(m[2], tune_data.threshold)))),
           Some(tune_data.max_results)) >>

(***************************************************************************)
(* Specification SpecBatch: one run of find_tunes_for_set, then one run of *)
(* find_tunes_for_set_async over the same disk and aliases file.           *)
(***************************************************************************)
MaxTunes == 2

MaxWorkers == 2

BatchTunes == { the_kesh, Leaf }

TuneLists == SeqsUpTo(BatchTunes, MaxTunes)

BatchThreshold == Frac(17, 20)

Overloads == { None, Some(MaxCap) }

\* max_workers: the default, or the override
WorkerCounts == { None, Some(MaxWorkers) }

\* multiprocessing.cpu_count()
CpuCounts == 1..MaxWorkers

BatchFiles == { f_track, f_upper, f_set }

BatchDisks ==
    { Disk(SelectSeq(TraversalOrder, LAMBDA f : f \in S), FALSE) :
          S \in { T \in SUBSET BatchFiles : Cardinality(T) = MaxFiles } }

\* seq_order and par_order: the iteration order of AUDIO_EXTENSIONS in the
\* process of the sequential run and in the one of the parallel run
InitBatch ==
    /\ pc = "seq"
    /\ inp \in [tunes : TuneLists, directories : {<<dir_missing, dir_d>>},
                use_aliases : BOOLEAN, threshold : {BatchThreshold},
                overload : Overloads, max_workers : WorkerCounts,
                disk : BatchDisks, seq_order : ExtOrders,
                par_order : ExtOrders]
    /\ out = <<>>
    /\ aliases_file = SearchDataset
    /\ aliases_cache = None
    /\ cache_time = None
    /\ now = 0
    /\ git_invoked = FALSE
    /\ cache_file = <<>>
    /\ seq_next = 1
    /\ seq_results = <<>>
    /\ par_pc = "idle"
    /\ file_candidates = <<>>
    /\ search_tasks = <<>>
    /\ futures = <<>>
    /\ par_results = <<>>
    /\ max_workers = 0

\* find_tunes_for_set, one pass of `for tune in tunes`
SeqSearch ==
    /\ pc = "seq"
    /\ seq_next <= Len(inp.tunes)
    /\ SearchAliases(inp.use_aliases)
    /\ LET tune == inp.tunes[seq_next]
           matches ==
               search_local_files(tune, inp.directories, inp.use_aliases,
                   inp.threshold, Some(batch_max_results(inp.overload)),
                   SearchMap(inp.use_aliases, aliases_cache'),
                   FileSystem(inp.disk, inp.seq_order))
       IN  seq_results' = DictSet(seq_results, tune, match_paths(matches))
    /\ seq_next' = seq_next + 1
    /\ UNCHANGED <<pc, inp, out, now, par_pc, file_candidates, search_tasks,
                   futures, par_results, max_workers>>

\* find_tunes_for_set returns; the parallel run starts in its own process,
\* whose alias cache is empty (thesession_data lines 103-104)
SeqReturn ==
    /\ pc = "seq"
    /\ seq_next = Len(inp.tunes) + 1
    /\ pc' = "par"
    /\ par_pc' = "scan"
    /\ aliases_cache' = None
    /\ cache_time' = None
    /\ UNCHANGED <<inp, out, now, aliases_file, git_invoked, cache_file,
                   seq_next, seq_results,
                   file_candidates, search_tasks, futures, par_results,
                   max_workers>>

\* find_tunes_for_set_async lines 129-153: the worker count, and the one
\* scan whose candidates every task shares
ParScan ==
    /\ par_pc = "scan"
    /\ \E cpu_count \in CpuCounts :
           max_workers' =
               IF inp.max_workers = None
               THEN (IF cpu_count < Len(inp.tunes) THEN cpu_count
                     ELSE Len(inp.tunes))
               ELSE inp.max_workers[1]
    /\ file_candidates' =
           scan_candidates(inp.directories,
                           FileSystem(inp.disk, inp.par_order))
    /\ par_pc' = "prepare"
    /\ UNCHANGED <<pc, inp, out, cacheVars, seq_next, seq_results,
                   search_tasks, futures, par_results>>

\* lines 157-168, one pass of `for tune in tunes`
ParPrepare ==
    /\ par_pc = "prepare"
    /\ Len(search_tasks) < Len(inp.tunes)
    /\ SearchAliases(inp.use_aliases)
    /\ LET tune == inp.tunes[Len(search_tasks) + 1]
       IN  search_tasks' =
               Append(search_tasks,
                      [tune_name |-> tune,
                       search_terms |->
                           batch_search_terms(tune, inp.use_aliases,
                               SearchMap(inp.use_aliases, aliases_cache')),
                       threshold |-> inp.threshold,
                       max_results |-> batch_max_results(inp.overload)])
    /\ UNCHANGED <<pc, inp, out, now, seq_next, seq_results, par_pc,
                   file_candidates, futures, par_results, max_workers>>

\* lines 174-179: ProcessPoolExecutor(max_workers) raises ValueError for
\* max_workers <= 0; otherwise every task is submitted
ParSubmit ==
    /\ par_pc = "prepare"
    /\ Len(search_tasks) = Len(inp.tunes)
    /\ IF max_workers <= 0
       THEN par_pc' = "raised" /\ UNCHANGED futures
       ELSE /\ par_pc' = "collect"
            /\ futures' = [i \in DOMAIN search_tasks |->
                              [state |-> "pending", result |-> <<>>]]
    /\ UNCHANGED <<pc, inp, out, cacheVars, seq_next, seq_results,
                   file_candidates, search_tasks, par_results, max_workers>>

\* a free worker of the pool takes the oldest pending task
WorkerStart(i) ==
    /\ par_pc = "collect"
    /\ futures[i].state = "pending"
    /\ \A j \in 1..(i - 1) : futures[j].state # "pending"
    /\ Cardinality({ j \in DOMAIN futures : futures[j].state = "running" })
           < max_workers
    /\ futures' = [futures EXCEPT ![i].state = "running"]
    /\ UNCHANGED <<pc, inp, out, cacheVars, seq_next, seq_results, par_pc,
                   file_candidates, search_tasks, par_results, max_workers>>

\* the worker runs search_single_tune(task) and its future completes
WorkerFinish(i) ==
    /\ par_pc = "collect"
    /\ futures[i].state = "running"
    /\ futures' = [futures EXCEPT
                      ![i] = [state |-> "done",
                              result |-> search_single_tune(search_tasks[i],
                                                            file_candidates)]]
    /\ UNCHANGED <<pc, inp, out, cacheVars, seq_next, seq_results, par_pc,
                   file_candidates, search_tasks, par_results, max_workers>>

\* lines 183-195: as_completed hands over a completed future
Collect(i) ==
    /\ par_pc = "collect"
    /\ futures[i].state = "done"
    /\ par_results' = DictSet(par_results, futures[i].result[1],
                              match_paths(futures[i].result[2]))
    /\ futures' = [futures EXCEPT ![i].state = "collected"]
    /\ UNCHANGED <<pc, inp, out, cacheVars, seq_next, seq_results, par_pc,
                   file_candidates, search_tasks, max_workers>>

\* line 197: return results
ParReturn ==
    /\ par_pc = "collect"
    /\ \A i \in DOMAIN futures : futures[i].state = "collected"
    /\ par_pc' = "done"
    /\ pc' = "done"
    /\ UNCHANGED <<inp, out, cacheVars, seq_next, seq_results,
                   file_candidates, search_tasks, futures, par_results,
                   max_workers>>

NextBatch ==
    \/ SeqSearch
    \/ SeqReturn
    \/ ParScan
    \/ ParPrepare
    \/ ParSubmit
    \/ \E i \in 1..MaxTunes : i \in DOMAIN futures /\ WorkerStart(i)
    \/ \E i \in 1..MaxTunes : i \in DOMAIN futures /\ WorkerFinish(i)
    \/ \E i \in 1..MaxTunes : i \in DOMAIN futures /\ Collect(i)
    \/ ParReturn

SpecBatch == InitBatch /\ [][NextBatch]_vars

\* the parallel run has ended, by returning or by raising
ParEnded == par_pc \in {"done", "raised"}

\* the parallel run returned the mapping the sequential run returned
SameMapping == par_pc = "done" /\ Items(par_results) = Items(seq_results)

\* C6 as claimed: for a fixed file set, alias dataset, threshold and
\* overload, the sequential and the parallel batch resolver return the same
\* mapping from tune name to matched paths, for every worker count and
\* every order in which the workers complete
C6_Original == (ParEnded /\ inp.tunes # <<>>) => SameMapping

\* C6, amended: the same, for two runs that iterate the set
\* AUDIO_EXTENSIONS in the same order (as two runs in one interpreter
\* process do) over a non-empty tune list
C6_Amended ==
    (ParEnded /\ inp.tunes # <<>> /\ inp.seq_order = inp.par_order)
        => SameMapping

\* both runs are over, two workers completed in the opposite order of the
\* tune list, and a tune has a match
C6_Witness ==
    /\ par_pc = "done"
    /\ inp.seq_order = inp.par_order
    /\ max_workers >= 2
    /\ Len(par_results) >= 2
    /\ par_results[1][1] = seq_results[2][1]
    /\ par_results[2][1] = seq_results[1][1]
    /\ par_results[1][2] # <<>>
    /\ Items(par_results) = Items(seq_results)

(***************************************************************************)
(* Specification SpecTrack: search_local_files("The X", [dir]) over a      *)
(* directory whose only file is "<digits> - X.<audio ext>".                *)
(***************************************************************************)
MaxTrackTokens == 2

TrackTokens ==
    { Kesh, <<"a">>, <<" ">>, <<"-">>, <<"_">>, <<"'">>, <<".">>, the_ }

TrackNames == { Concat(ts) : ts \in SeqsUpTo(TrackTokens, MaxTrackTokens) }

TrackNumbers == { <<"0","5">>, <<"1">> }

TrackExtensions == { mp3, Upper(flac) }

The_ == <<"T","h","e"," ">>

\* the path of the file "<digits> - X<ext>" in /d
track_file(digits, X, ext) ==
    <<"/","d","/">> \o digits \o <<" ","-"," ">> \o X \o ext

InitTrack ==
    /\ pc = "start"
    /\ inp \in [X : TrackNames, digits : TrackNumbers, ext : TrackExtensions,
                use_aliases : BOOLEAN, threshold : {BatchThreshold},
                fold : BOOLEAN, ext_order : ExtOrders]
    /\ out = <<>>
    /\ aliases_file \in {Absent, SearchDataset}
    /\ aliases_cache = None
    /\ cache_time = None
    /\ now = 0
    /\ git_invoked = FALSE
    /\ cache_file = <<>>
    /\ BatchIdle

\* matches = search_local_files("The " + X, ["/d"], use_aliases, threshold)
SearchTrack ==
    /\ pc = "start"
    /\ pc' = "searched"
    /\ SearchAliases(inp.use_aliases)
    /\ out' = [matches |->
                  search_local_files(The_ \o inp.X, <<dir_d>>,
                      inp.use_aliases, inp.threshold, None,
                      SearchMap(inp.use_aliases, aliases_cache'),
                      FileSystem(
                          Disk(<<track_file(inp.digits, inp.X, inp.ext)>>,
                               inp.fold),
                          inp.ext_order))]
    /\ UNCHANGED <<inp, now, batchVars>>

NextTrack == SearchTrack

SpecTrack == InitTrack /\ [][NextTrack]_vars

\* the search returned exactly the one file, with a score of at least the
\* threshold
OneTrackFound ==
    /\ Len(out.matches) = 1
    /\ out.matches[1][1] = track_file(inp.digits, inp.X, inp.ext)
    /\ GE(out.matches[1][2], inp.threshold)

\* C11 as claimed: for every tune name X, searching "The X" at threshold
\* 0.85 in a directory holding only "<digits> - X.<audio ext>" returns
\* exactly that file with score >= 0.85, with or without alias lookup
C11_TrackFound == pc = "searched" => OneTrackFound

(***************************************************************************)
(* C12: the order of the list search_local_files returns, under SpecSearch *)
(***************************************************************************)
\* every path the scan of the input directories yields, repeats included,
\* in the order the scan yields them
ScannedFiles ==
    Concat([i \in 1..Len(inp.directories) |->
               find_audio_files(inp.disk.dirs[inp.directories[i]],
                                inp.ext_order, inp.disk.fold)])

\* the position at which the scan first yields the path
FirstSeen(scanned, path) ==
    CHOOSE i \in 1..Len(scanned) :
        /\ scanned[i] = path
        /\ \A j \in 1..(i - 1) : scanned[j] # path

\* a list of (path, score) in non-increasing score order, equal scores in
\* the order the scan first met their files
ScoreThenScanOrder(ms, scanned) ==
    \A i \in 1..(Len(ms) - 1) :
        \/ GT(ms[i][2], ms[i + 1][2])
        \/ /\ ms[i][2] = ms[i + 1][2]
           /\ FirstSeen(scanned, ms[i][1]) < FirstSeen(scanned, ms[i + 1][1])

\* C12: the list search_local_files returns is in non-increasing score
\* order, and results of equal score appear in the order in which the
\* directory scan first encountered their files
C12_SortedStable ==
    /\ pc = "capped" => ScoreThenScanOrder(out.matches, ScannedFiles)
    /\ pc = "both" => ScoreThenScanOrder(out.all, ScannedFiles)

\* an uncapped result holding two files of equal score that the scan meets
\* in the opposite of the traversal order, one of them met twice
C12_Witness ==
    /\ pc = "both"
    /\ inp.disk.fold
    /\ \E i \in 1..(Len(out.all) - 1) :
           /\ out.all[i][2] = out.all[i + 1][2]
           /\ out.all[i][1] = f_upper
           /\ out.all[i + 1][1] = f_track

(***************************************************************************)
(* C13: symmetry of alias-group membership, under SpecAliases              *)
(***************************************************************************)
\* the key of a name in the aliases map
AliasKey(name) == Strip(Lower(name))

\* C13 as claimed: if the group looked up for A contains B, then the group
\* looked up for B contains A
C13_Original ==
    pc = "aliases" =>
        \A i \in DOMAIN out.aliases :
            inp.tune_name
                \in Range(get_tune_aliases(aliases_cache[1], out.aliases[i]))

\* C13 amended: if the group looked up for A contains B, then the group
\* looked up for B contains a name equal to A up to letter case and
\* surrounding whitespace
C13_Amended ==
    pc = "aliases" =>
        \A i \in DOMAIN out.aliases :
            \E b \in Range(get_tune_aliases(aliases_cache[1], out.aliases[i])) :
                AliasKey(b) = AliasKey(inp.tune_name)

\* two tune_ids hold aliases differing only in case, and the group looked
\* up for a name of one tune holds a name of the other tune whose own group
\* lacks the queried spelling
C13_Witness ==
    /\ pc = "aliases"
    /\ aliases_file.state = "readable"
    /\ \E i, j \in DOMAIN aliases_file.rows :
           /\ aliases_file.rows[i].tune_id # aliases_file.rows[j].tune_id
           /\ aliases_file.rows[i].alias # aliases_file.rows[j].alias
           /\ Lower(aliases_file.rows[i].alias) = Lower(aliases_file.rows[j].alias)
    /\ \E i \in DOMAIN out.aliases :
           /\ out.aliases[i] # inp.tune_name
           /\ inp.tune_name
                  \notin Range(get_tune_aliases(aliases_cache[1], out.aliases[i]))

(***************************************************************************)
(* tune_disambiguation.get_tune_types.  The catalog is the file tunes.csv: *)
(* absent, unreadable, or readable with a list of rows, each               *)
(* [tune_id, name, type]; a short row has NoValue in the columns it lacks.  *)
(***************************************************************************)
\* buggy variant: ", the" is never added to a query without "the"
tune_name_alt_rotated_only(tune_name_lower) ==
    IF StartsWith(tune_name_lower, the_)
    THEN Some(From(tune_name_lower, 4) \o comma_the)
    ELSE None

\* lines 27-32: the query with "the" moved to the end, or ", the" added
tune_name_alt(tune_name_lower) ==
    IF StartsWith(tune_name_lower, the_)
    THEN Some(From(tune_name_lower, 4) \o comma_the)
    ELSE IF ~EndsWith(tune_name_lower, comma_the)
    THEN Some(tune_name_lower \o comma_the)
    ELSE None

\* lines 42-45
row_name_alt(row_name) ==
    IF StartsWith(row_name, the_) THEN From(row_name, 4) \o comma_the
    ELSE row_name

\* lines 47-48: the row's name is the query, in either form of either
name_matches(row_name, tune_name_lower, alt) ==
    \/ row_name = tune_name_lower
    \/ row_name_alt(row_name) = tune_name_lower
    \/ /\ alt # None
       /\ alt[1] # <<>>
       /\ \/ row_name = alt[1]
          \/ row_name_alt(row_name) = alt[1]

\* lines 40-48 for one row and a query
row_matches(row, tune_name) ==
    name_matches(Strip(Lower(row.name)), Strip(Lower(tune_name)),
                 tune_name_alt(Strip(Lower(tune_name))))

\* buggy variant: a matching row is appended even when its tune_id is
\* already among the matches
RECURSIVE read_tunes_all(_, _, _)
read_tunes_all(rows, tune_name, matches) ==
    IF rows = <<>> THEN matches
    ELSE read_tunes_all(Tail(rows), tune_name,
             IF row_matches(Head(rows), tune_name)
             THEN Append(matches, Head(rows))
             ELSE matches)

\* lines 38-60: the loop over the rows; a match is the row's tune_id, name
\* and type (meter and key are copied the same way)
RECURSIVE read_tunes(_, _, _)
read_tunes(rows, tune_name, matches) ==
    IF rows = <<>> THEN matches
    ELSE read_tunes(Tail(rows), tune_name,
             IF /\ row_matches(Head(rows), tune_name)
                /\ ~\E k \in DOMAIN matches :
                       matches[k].tune_id = Head(rows).tune_id
             THEN Append(matches, Head(rows))
             ELSE matches)

\* get_tune_types: [] for an absent file; [] when open() raises; [] when a
\* row has no name, since None.lower() raises inside the try and the
\* handler returns []; else the matches
get_tune_types(tunes_file, tune_name) ==
    IF tunes_file.state # "readable" THEN <<>>
    ELSE IF \E i \in DOMAIN tunes_file.rows : tunes_file.rows[i].name = NoValue
    THEN <<>>
    ELSE read_tunes(tunes_file.rows, tune_name, <<>>)

(***************************************************************************)
(* Specification SpecCatalog: get_tune_types over small catalogs           *)
(***************************************************************************)
MaxCatalogRows == 3

Kesh_The == Kesh \o <<",", " ", "T", "h", "e">>

CatalogNames == { Kesh, The_Kesh, Kesh_The }

\* the rows of a catalog: complete ones, and short ones that lack the type
\* or the name and the type
CatalogRows ==
    { [tune_id |-> t, name |-> n, type |-> ty] :
          t \in TuneIds, n \in CatalogNames, ty \in {reel, jig, NoValue} }
    \cup { [tune_id |-> t, name |-> NoValue, type |-> NoValue] : t \in TuneIds }

Catalogs == { Readable(rows) : rows \in SeqsUpTo(CatalogRows, MaxCatalogRows) }

CatalogQueries == { Kesh, the_kesh, <<" ">> \o Kesh_The, Leaf }

InitCatalog ==
    /\ pc = "start"
    /\ inp \in [tune_name : CatalogQueries,
                tunes_file : {Absent, Unreadable} \cup Catalogs]
    /\ out = <<>>
    /\ BatchIdle
    /\ CacheIdle

\* identities = get_tune_types(tune_name)
GetTuneTypes ==
    /\ pc = "start"
    /\ pc' = "types"
    /\ out' = [identities |-> get_tune_types(inp.tunes_file, inp.tune_name)]
    /\ UNCHANGED <<inp, batchVars, cacheVars>>

NextCatalog == GetTuneTypes

SpecCatalog == InitCatalog /\ [][NextCatalog]_vars

\* the rows of the catalog that match the query and carry the tune_id
MatchingRows(tune_id) ==
    { i \in DOMAIN inp.tunes_file.rows :
          /\ inp.tunes_file.rows[i].tune_id = tune_id
          /\ row_matches(inp.tunes_file.rows[i], inp.tune_name) }

\* C14: the list get_tune_types returns holds at most one identity per
\* tune_id, and that identity is the first matching row of the tune_id in
\* file order
C14_OnePerTuneId ==
    pc = "types" =>
        \A k \in DOMAIN out.identities :
            /\ \A l \in DOMAIN out.identities :
                   out.identities[l].tune_id = out.identities[k].tune_id => l = k
            /\ MatchingRows(out.identities[k].tune_id) # {}
            /\ \E i \in MatchingRows(out.identities[k].tune_id) :
                   /\ \A j \in MatchingRows(out.identities[k].tune_id) : i <= j
                   /\ out.identities[k] = inp.tunes_file.rows[i]

\* a catalog with two matching rows of one tune_id that differ, and a
\* matching row of another tune_id: two identities are returned
C14_Witness ==
    /\ pc = "types"
    /\ Len(out.identities) = 2
    /\ \E i, j \in MatchingRows(out.identities[1].tune_id) :
           inp.tunes_file.rows[i] # inp.tunes_file.rows[j]

(***************************************************************************)
(* Specification SpecOverload: the batch resolvers of SpecBatch, run with  *)
(* every overload from 0 to MaxCap and with none                           *)
(***************************************************************************)
InitOverload ==
    /\ pc = "seq"
    /\ inp \in [tunes : TuneLists, directories : {<<dir_missing, dir_d>>},
                use_aliases : BOOLEAN, threshold : {BatchThreshold},
                overload : Caps, max_workers : WorkerCounts,
                disk : BatchDisks,
                seq_order : {<<mp3, flac>> \o OtherExtensions},
                par_order : {<<mp3, flac>> \o OtherExtensions}]
    /\ out = <<>>
    /\ aliases_file = SearchDataset
    /\ aliases_cache = None
    /\ cache_time = None
    /\ now = 0
    /\ git_invoked = FALSE
    /\ cache_file = <<>>
    /\ seq_next = 1
    /\ seq_results = <<>>
    /\ par_pc = "idle"
    /\ file_candidates = <<>>
    /\ search_tasks = <<>>
    /\ futures = <<>>
    /\ par_results = <<>>
    /\ max_workers = 0

SpecOverload == InitOverload /\ [][NextBatch]_vars

\* the mapping has exactly the tune names as keys, and no value holds more
\* than cap paths
KeysAndCap(results, tunes, cap) ==
    /\ { results[i][1] : i \in DOMAIN results } = Range(tunes)
    /\ \A i \in DOMAIN results : Len(results[i][2]) <= cap

\* the cap the claim gives an overload: the overload, or 1 when not given
ClaimedCap(overload) == IF overload = None THEN 1 ELSE overload[1]

\* C15: for every list of tune names and every overload, the mapping a
\* batch resolver returns has exactly the input tune names as keys, and
\* each value holds at most `overload` paths, at most 1 when no overload is
\* given
\* (stated as claimed; the code treats the overload 0 as not given)
C15_KeysAndCap ==
    /\ pc \in {"par", "done"}
           => KeysAndCap(seq_results, inp.tunes, ClaimedCap(inp.overload))
    /\ par_pc = "done"
           => KeysAndCap(par_results, inp.tunes, ClaimedCap(inp.overload))

(***************************************************************************)
(* Specification SpecScan: find_audio_files over directories whose files   *)
(* carry an extension in every letter case                                 *)
(***************************************************************************)
MaxScanFiles == 3

s_lower == <<"/","d","/","a",".","m","p","3">>

s_upper == <<"/","d","/","b",".","M","P","3">>

s_mixed == <<"/","d","/","c",".","M","p","3">>

s_flac == <<"/","d","/","e",".","f","l","a","c">>

s_text == <<"/","d","/","f",".","t","x","t">>

ScanTraversal == << s_lower, s_upper, s_mixed, s_flac, s_text >>

ScanListings ==
    { SelectSeq(ScanTraversal, LAMBDA f : f \in S) :
          S \in { T \in SUBSET Range(ScanTraversal) :
                      Cardinality(T) <= MaxScanFiles } }

\* the directory given: missing, or present with a listing
ScanDirectories ==
    { [exists |-> FALSE, listing |-> <<>>] }
    \cup { [exists |-> TRUE, listing |-> l] : l \in ScanListings }

InitScan ==
    /\ pc = "start"
    /\ inp \in [directory : ScanDirectories, fold : BOOLEAN,
                ext_order : ExtOrders]
    /\ out = <<>>
    /\ BatchIdle
    /\ CacheIdle

\* audio_files = find_audio_files(directory)
FindAudioFiles ==
    /\ pc = "start"
    /\ pc' = "scanned"
    /\ out' = [audio_files |->
                  find_audio_files(inp.directory, inp.ext_order, inp.fold)]
    /\ UNCHANGED <<inp, batchVars, cacheVars>>

NextScan == FindAudioFiles

SpecScan == InitScan /\ [][NextScan]_vars

\* the extension of the file, compared case-insensitively, is in the
\* audio-extension set
HasAudioExtension(f) ==
    \E k \in DOMAIN inp.ext_order : EndsWith(Lower(f), inp.ext_order[k])

\* C16: find_audio_files returns every file under the root whose extension,
\* compared case-insensitively, is in the audio-extension set, for every
\* letter-case mix of the extension, on case-sensitive and case-insensitive
\* file systems alike
C16_EveryCaseMix ==
    (pc = "scanned" /\ inp.directory.exists) =>
        \A i \in DOMAIN inp.directory.listing :
            HasAudioExtension(inp.directory.listing[i])
                => inp.directory.listing[i] \in Range(out.audio_files)

\* C17: the list find_audio_files returns holds each path at most once,
\* also when the lower-case and the upper-case glob pass match the same file
C17_EachPathOnce ==
    pc = "scanned" =>
        \A i, j \in DOMAIN out.audio_files :
            out.audio_files[i] = out.audio_files[j] => i = j

(***************************************************************************)
(* Specification SpecRows: load_aliases_data and get_tune_types over files *)
(* that hold short rows                                                    *)
(***************************************************************************)
\* rows of aliases.csv that lack the name, or the alias and the name
ShortAliasRows ==
    { [tune_id |-> t, alias |-> a, name |-> NoValue] :
          t \in TuneIds, a \in {Kesh} }
    \cup { [tune_id |-> t, alias |-> NoValue, name |-> NoValue] : t \in TuneIds }

ShortDatasets ==
    { Readable(rows) : rows \in SeqsUpTo(Rows \cup ShortAliasRows, MaxRows) }

\* either the catalog or the dataset is on disk
InitRows ==
    /\ pc = "start"
    /\ out = <<>>
    /\ \/ /\ inp \in [tune_name : CatalogQueries, tunes_file : Catalogs]
          /\ aliases_file = Absent
       \/ /\ inp \in [tune_name : CatalogQueries, tunes_file : {Absent}]
          /\ aliases_file \in ShortDatasets
    /\ aliases_cache = None
    /\ cache_time = None
    /\ now = 0
    /\ git_invoked = FALSE
    /\ cache_file = <<>>
    /\ BatchIdle

\* aliases_map = load_aliases_data(), no download being possible
LoadAliasesData ==
    /\ pc = "start"
    /\ aliases_file # Absent
    /\ pc' = "loaded"
    /\ \E r \in load_aliases_data(aliases_file, {}) :
           /\ aliases_file' = r[1]
           /\ out' = [aliases_map |-> r[2]]
    /\ UNCHANGED <<inp, aliases_cache, cache_time, now, git_invoked,
                   cache_file, batchVars>>

\* identities = get_tune_types(tune_name) on the catalog on disk
GetTypesOfCatalog == inp.tunes_file # Absent /\ GetTuneTypes

NextRows == LoadAliasesData \/ GetTypesOfCatalog

SpecRows == InitRows /\ [][NextRows]_vars

\* the rows that have a value in every column
WellFormedAliases(rows) ==
    SelectSeq(rows, LAMBDA r : r.alias # NoValue /\ r.name # NoValue)

WellFormedTunes(rows) ==
    SelectSeq(rows, LAMBDA r : r.name # NoValue /\ r.type # NoValue)

\* C18: when a row lacks a column value the loader skips only that row:
\* load_aliases_data returns the alias groups of the well-formed rows, and
\* get_tune_types returns the identities of the well-formed matching rows
\* (stated as claimed; the code returns nothing at all in that case)
C18_SkipsOnlyShortRows ==
    /\ pc = "loaded"
           => out.aliases_map
                  \in build_aliases_map(WellFormedAliases(aliases_file.rows))
    /\ pc = "types"
           => out.identities
                  = read_tunes(WellFormedTunes(inp.tunes_file.rows),
                               inp.tune_name, <<>>)

(***************************************************************************)
(* Specification SpecMissing: the scan, the alias lookup and the catalog   *)
(* lookup when a directory, the alias dataset or the catalog is missing    *)
(***************************************************************************)
MissingDirectoryLists ==
    { <<dir_missing, dir_d>>, <<dir_d, dir_missing>>, <<dir_missing>>, <<dir_d>> }

MissingCatalogs ==
    { Absent, Unreadable,
      Readable(<<[tune_id |-> 1, name |-> The_Kesh, type |-> reel]>>) }

\* inp.dataset is the aliases file on disk before any call
InitMissing ==
    /\ pc = "start"
    /\ inp \in [tune_name : {Kesh, Leaf}, directories : MissingDirectoryLists,
                disk : Disks, ext_order : {<<mp3, flac>> \o OtherExtensions},
                tunes_file : MissingCatalogs,
                dataset : {Absent, Unreadable, SearchDataset}]
    /\ out = [candidates |-> None, aliases |-> None, identities |-> None]
    /\ aliases_file = inp.dataset
    /\ aliases_cache = None
    /\ cache_time = None
    /\ now = 0
    /\ git_invoked = FALSE
    /\ cache_file = <<>>
    /\ BatchIdle

\* search_local_files lines 127-143 over the roots given
ScanRoots ==
    /\ out.candidates = None
    /\ out' = [out EXCEPT !.candidates =
                  Some(scan_candidates(inp.directories,
                                       FileSystem(inp.disk, inp.ext_order)))]
    /\ UNCHANGED <<pc, inp, cacheVars, batchVars>>

\* get_tune_aliases(tune_name); an absent file is first downloaded, which
\* can fail or deliver a dataset
AliasesOfDataset ==
    /\ out.aliases = None
    /\ get_aliases_map(RemoteDatasets)
    /\ out' = [out EXCEPT !.aliases =
                  Some(get_tune_aliases(aliases_cache'[1], inp.tune_name))]
    /\ UNCHANGED <<pc, inp, now, batchVars>>

\* get_tune_types(tune_name)
TypesOfCatalog ==
    /\ out.identities = None
    /\ out' = [out EXCEPT !.identities =
                  Some(get_tune_types(inp.tunes_file, inp.tune_name))]
    /\ UNCHANGED <<pc, inp, cacheVars, batchVars>>

NextMissing == ScanRoots \/ AliasesOfDataset \/ TypesOfCatalog

SpecMissing == InitMissing /\ [][NextMissing]_vars

\* the roots given that exist
ExistingRoots ==
    SelectSeq(inp.directories, LAMBDA d : inp.disk.dirs[d].exists)

\* a root that does not exist contributes nothing, and the other roots are
\* scanned as if it had not been given
MissingRootsSkipped ==
    out.candidates # None =>
        out.candidates[1]
            = scan_candidates(ExistingRoots, FileSystem(inp.disk, inp.ext_order))

\* an absent or unreadable catalog gives the empty list
MissingCatalogGivesNone ==
    (out.identities # None /\ inp.tunes_file.state # "readable")
        => out.identities[1] = <<>>

EmptyQueries == { <<>>, <<" ">>, <<"'">>, <<".">> }

EmptyThresholds == { Frac(1, 10), BatchThreshold, Frac(9, 10), One }

InitEmpty ==
    /\ pc = "start"
    /\ inp \in [tune_name : EmptyQueries, directories : {<<dir_missing, dir_d>>},
                use_aliases : BOOLEAN, threshold : EmptyThresholds,
                disk : Disks, ext_order : {<<mp3, flac>> \o OtherExtensions}]
    /\ out = <<>>
    /\ aliases_file \in {Absent, SearchDataset}
    /\ aliases_cache = None
    /\ cache_time = None
    /\ now = 0
    /\ git_invoked = FALSE
    /\ cache_file = <<>>
    /\ BatchIdle

\* matches = search_local_files(tune_name, directories, use_aliases,
\*                              threshold)
SearchEmpty ==
    /\ pc = "start"
    /\ pc' = "searched"
    /\ SearchAliases(inp.use_aliases)
    /\ out' = [matches |->
                  search_local_files(inp.tune_name, inp.directories,
                      inp.use_aliases, inp.threshold, None,
                      SearchMap(inp.use_aliases, aliases_cache'),
                      FileSystem(inp.disk, inp.ext_order))]
    /\ UNCHANGED <<inp, now, batchVars>>

NextEmpty == SearchEmpty

SpecEmpty == InitEmpty /\ [][NextEmpty]_vars

\* C20: a query whose normalized form is empty never matches:
\* search_local_files returns the empty list for it, for every candidate
\* set and every threshold above 0
\* (stated as claimed; the code matches every file at score 0.9)
C20_EmptyNeverMatches ==
    (pc = "searched" /\ normalize_tune_name(inp.tune_name) = <<>>)
        => out.matches = <<>>

(***************************************************************************)
(* Specification SpecApostrophe: normalize_tune_name applied to one name   *)
(* written with each apostrophe variant and with none.  The curly quotes   *)
(* U+2018 and U+2019 are written "lsquo" and "rsquo", the backtick         *)
(* "backtick".                                                             *)
(***************************************************************************)
MaxApostropheTokens == 2

ApostropheTokens == { <<"O">>, <<"n">>, <<" ">>, <<"T","h","e"," ">> }

NameParts ==
    { Concat(ts) : ts \in SeqsUpTo(ApostropheTokens, MaxApostropheTokens) }

InitApostrophe ==
    /\ pc = "start"
    /\ inp \in [before : NameParts, after : NameParts]
    /\ out = <<>>
    /\ BatchIdle
    /\ CacheIdle

\* normalize_tune_name(before + a + after) for each apostrophe variant a,
\* and normalize_tune_name(before + after)
NormalizeVariants ==
    /\ pc = "start"
    /\ pc' = "variants"
    /\ out' = [straight |->
                   normalize_tune_name(inp.before \o <<"'">> \o inp.after),
               curly_left |->
                   normalize_tune_name(inp.before \o <<"lsquo">> \o inp.after),
               curly_right |->
                   normalize_tune_name(inp.before \o <<"rsquo">> \o inp.after),
               backtick |->
                   normalize_tune_name(inp.before \o <<"backtick">> \o inp.after),
               none |-> normalize_tune_name(inp.before \o inp.after)]
    /\ UNCHANGED <<inp, batchVars, cacheVars>>

NextApostrophe == NormalizeVariants

SpecApostrophe == InitApostrophe /\ [][NextApostrophe]_vars

\* C21: normalize_tune_name removes every apostrophe variant (straight,
\* curly-left, curly-right, backtick), so a name written with any of them
\* normalizes to the same string as the name written with none
\* (stated as claimed; the code keeps the curly quotes)
C21_ApostrophesRemoved ==
    pc = "variants" =>
        /\ out.straight = out.none
        /\ out.backtick = out.none
        /\ out.curly_left = out.none
        /\ out.curly_right = out.none

(***************************************************************************)
(* Specification SpecNetwork: the batch resolvers, each search of which is *)
(* a run of search_local_files or of its parallel counterpart, over every  *)
(* state of the aliases file                                               *)
(***************************************************************************)
InitNetwork ==
    /\ pc = "seq"
    /\ inp \in [tunes : { <<the_kesh>>, <<the_kesh, Leaf>> },
                directories : {<<dir_missing, dir_d>>},
                use_aliases : BOOLEAN, threshold : {BatchThreshold},
                overload : {None}, max_workers : WorkerCounts,
                disk : BatchDisks,
                seq_order : {<<mp3, flac>> \o OtherExtensions},
                par_order : {<<mp3, flac>> \o OtherExtensions}]
    /\ out = <<>>
    /\ aliases_file \in {Absent, Unreadable, SearchDataset}
    /\ aliases_cache = None
    /\ cache_time = None
    /\ now = 0
    /\ git_invoked = FALSE
    /\ cache_file = <<>>
    /\ seq_next = 1
    /\ seq_results = <<>>
    /\ par_pc = "idle"
    /\ file_candidates = <<>>
    /\ search_tasks = <<>>
    /\ futures = <<>>
    /\ par_results = <<>>
    /\ max_workers = 0

SpecNetwork == InitNetwork /\ [][NextBatch]_vars

\* C22: no run of search_local_files or of the batch resolver performs a
\* live network operation, for every state of the file system, the alias
\* file being absent included
\* (stated as claimed; with the alias file absent the code runs git clone)
C22_NoNetwork == git_invoked = FALSE

(***************************************************************************)
(* C23: the content of the uncapped list of search_local_files, under      *)
(* SpecSearch                                                              *)
(***************************************************************************)
\* the reference score of the claim for one search term
ReferenceTermScore(term, derived_name, threshold) ==
    Max(calculate_similarity(term, derived_name),
        IF is_tune_in_composite_name(term, derived_name, threshold)
        THEN Frac(9, 10) ELSE Zero)

\* the reference best_score: the maximum over all search terms
ReferenceBestScore(terms, derived_name, threshold) ==
    MaxOf({ ReferenceTermScore(t, derived_name, threshold) : t \in terms })

\* the entries the claim prescribes: one per distinct scanned path whose
\* reference best_score reaches the threshold, with that score
ReferenceEntries(paths, terms, threshold) ==
    { <<f, ReferenceBestScore(terms, extract_tune_name_from_path(f), threshold)>> :
          f \in { g \in paths :
                    GE(ReferenceBestScore(terms, extract_tune_name_from_path(g),
                                          threshold), threshold) } }

\* the list holds exactly the entries, each once
ExactlyOnce(ms, entries) ==
    /\ Range(ms) = entries
    /\ Len(ms) = Cardinality(entries)

\* C23: with no result cap, search_local_files returns exactly one entry
\* per distinct path among the scanned candidates whose best_score reaches
\* the threshold, and no other entry; best_score is the maximum over the
\* search terms of max(similarity, 0.9 if the term is in the composite
\* name), and it is the score reported
C23_ExactEntries ==
    pc = "both" =>
        ExactlyOnce(out.all,
            ReferenceEntries(Range(ScannedFiles),
                batch_search_terms(inp.tune_name, inp.use_aliases,
                    SearchMap(inp.use_aliases, aliases_cache)),
                inp.threshold))

\* the scan met a file twice; the uncapped list holds a file at the
\* composite score and a file at a higher similarity score
C23_Witness ==
    /\ pc = "both"
    /\ Len(ScannedFiles) > Cardinality(Range(ScannedFiles))
    /\ Len(out.all) = 2
    /\ out.all[2][2] = CompositeScore
    /\ GT(out.all[1][2], CompositeScore)

(***************************************************************************)
(* C24: the matching rule of get_tune_types, under SpecCatalog             *)
(***************************************************************************)
\* rot(): a leading "the " rotated to a trailing ", the"
rot(name) ==
    IF StartsWith(name, the_) THEN From(name, 4) \o comma_the ELSE name

\* the four equalities of the claim
FourWay(q, r) == q = r \/ rot(q) = r \/ q = rot(r) \/ rot(q) = rot(r)

\* a query with neither a leading "the " nor a trailing ", the" also
\* matches with ", the" added to it
FiveWay(q, r) ==
    \/ FourWay(q, r)
    \/ /\ ~StartsWith(q, the_)
       /\ ~EndsWith(q, comma_the)
       /\ \/ q \o comma_the = r
          \/ q \o comma_the = rot(r)

\* the lower-cased, trimmed query and row name
QueryName == Strip(Lower(inp.tune_name))

RowName(row) == Strip(Lower(row.name))

\* every row has a name: the call reads the whole catalog
EveryRowNamed ==
    \A i \in DOMAIN inp.tunes_file.rows : inp.tunes_file.rows[i].name # NoValue

\* the rows rule selects, less the later rows of a tune_id already selected
FirstMatches(Rule(_, _)) ==
    { i \in DOMAIN inp.tunes_file.rows :
          /\ Rule(QueryName, RowName(inp.tunes_file.rows[i]))
          /\ \A j \in 1..(i - 1) :
                 inp.tunes_file.rows[j].tune_id = inp.tunes_file.rows[i].tune_id
                     => ~Rule(QueryName, RowName(inp.tunes_file.rows[j])) }

\* the identities returned are rows that rule selects, and, the catalog
\* being read to its end, each tune_id's first selected row is returned
ReturnedIff(Rule(_, _)) ==
    /\ \A k \in DOMAIN out.identities :
           Rule(QueryName, RowName(out.identities[k]))
    /\ EveryRowNamed =>
           \A i \in FirstMatches(Rule) :
               inp.tunes_file.rows[i] \in Range(out.identities)

CueOccurs(path_lower, type) ==
    \E i \in DOMAIN type_keywords :
        /\ type_keywords[i][1] = Lower(type)
        /\ \E k \in DOMAIN type_keywords[i][2] :
               Contains(path_lower, type_keywords[i][2][k])

\* a preferred type is given: the argument is neither None nor empty
PreferredGiven(preferred_type) ==
    preferred_type # None /\ preferred_type[1] # <<>>

\* the reference of the claim, on the lower-cased path
ReferenceOnLower(path_lower, base, identities, preferred_type) ==
    IF Len(identities) <= 1 THEN base
    ELSE IF PreferredGiven(preferred_type)
    THEN IF CueOccurs(path_lower, preferred_type[1])
         THEN Min(Times(Frac(12, 10), base), One)
         ELSE IF \E i \in DOMAIN identities :
                     /\ Lower(identities[i].type) # Lower(preferred_type[1])
                     /\ CueOccurs(path_lower, identities[i].type)
              THEN Times(Frac(8, 10), base)
              ELSE base
    ELSE IF \E i \in DOMAIN identities :
                CueOccurs(path_lower, identities[i].type)
         THEN Min(Times(Frac(11, 10), base), One)
         ELSE base

ReferenceTypeScore(path, base, identities, preferred_type) ==
    ReferenceOnLower(Lower(path), base, identities, preferred_type)

\* C25: score_by_type equals the reference for every path, base score in
\* [0,1], identity list and preferred type, and the result never exceeds 1.0
C25_EqualsReference ==
    pc = "scored" =>
        \A i \in DOMAIN out.scores :
            /\ out.scores[i]
                   = ReferenceTypeScore(inp.matches[i][1], inp.matches[i][2],
                                        inp.tune_types, inp.preferred_type)
            /\ GE(One, out.scores[i])

\* with a preferred type given, one file was boosted up to the cap 1.0 and
\* the other was penalised
C25_Witness ==
    /\ pc = "scored"
    /\ PreferredGiven(inp.preferred_type)
    /\ Len(inp.tune_types) = 2
    /\ GT(One, inp.matches[1][2])
    /\ out.scores[1] = One
    /\ GT(inp.matches[2][2], out.scores[2])

(***************************************************************************)
(* Specification SpecCache: sequences of alias lookups in one process,     *)
(* while the clock advances and the aliases file changes on disk.  pc      *)
(* names the step taken last.                                              *)
(***************************************************************************)
MaxTime == 3

CacheDatasetA ==
    Readable(<<[tune_id |-> 1, alias |-> kesh, name |-> The_Kesh]>>)

CacheFiles == { Absent, Unreadable, CacheDatasetA, SearchDataset }

CacheQueries == { Kesh, Leaf }

InitCache ==
    /\ pc = "start"
    /\ inp = <<>>
    /\ out = <<>>
    /\ aliases_file \in CacheFiles
    /\ aliases_cache = None
    /\ cache_time = None
    /\ now = 0
    /\ git_invoked = FALSE
    /\ cache_file = <<>>
    /\ BatchIdle

\* aliases = get_tune_aliases(tune_name)
LookupAliases ==
    \E tune_name \in CacheQueries :
        /\ get_aliases_map(RemoteDatasets)
        /\ pc' = "aliases"
        /\ inp' = [tune_name |-> tune_name]
        /\ out' = [aliases |-> get_tune_aliases(aliases_cache'[1], tune_name)]
        /\ UNCHANGED <<now, batchVars>>

\* variations = get_all_tune_variations(tune_name)
LookupVariations ==
    \E tune_name \in CacheQueries :
        /\ get_aliases_map(RemoteDatasets)
        /\ pc' = "variations"
        /\ inp' = [tune_name |-> tune_name]
        /\ out' = [variations |->
                       get_all_tune_variations(aliases_cache'[1], tune_name)]
        /\ UNCHANGED <<now, batchVars>>

\* an hour passes
Tick ==
    /\ now < MaxTime
    /\ now' = now + 1
    /\ pc' = "tick"
    /\ UNCHANGED <<inp, out, aliases_file, aliases_cache, cache_time,
                   git_invoked, cache_file, batchVars>>

\* the aliases file is replaced, removed or made unreadable on disk
FileChanges ==
    /\ aliases_file' \in CacheFiles \ {aliases_file}
    /\ pc' = "changed"
    /\ UNCHANGED <<inp, out, aliases_cache, cache_time, now, git_invoked,
                   cache_file,
                   batchVars>>

NextCache == LookupAliases \/ LookupVariations \/ Tick \/ FileChanges

SpecCache == InitCache /\ [][NextCache]_vars

\* a map is cached and no more than CACHE_DURATION has passed since its load
InWindow ==
    /\ aliases_cache # None
    /\ cache_time # None
    /\ now - cache_time[1] <= CACHE_DURATION

\* the step is an alias lookup
LookupStep == pc' \in {"aliases", "variations"}

\* C26: get_aliases_map loads the dataset only when no map is cached or
\* strictly more than CACHE_DURATION has elapsed since the last load;
\* within the window every call returns the same map, and no lookup changes
\* the cached map
C26_LoadsOnlyWhenStale ==
    [][ /\ InWindow => /\ aliases_cache' = aliases_cache
                       /\ cache_time' = cache_time
                       /\ git_invoked' = git_invoked
        /\ (LookupStep /\ ~InWindow) => cache_time' = Some(now)
        /\ (pc' = "aliases" /\ AliasKey(inp'.tune_name) \in DOMAIN aliases_cache'[1])
               => \A i \in DOMAIN aliases_cache'[1][AliasKey(inp'.tune_name)] :
                      out'.aliases[i]
                          = aliases_cache'[1][AliasKey(inp'.tune_name)][i]
      ]_vars

\* exactly CACHE_DURATION after the load, with another file on disk by
\* then, a lookup appended its name to a copy of the group of the map
\* loaded first
C26_Witness ==
    /\ pc = "aliases"
    /\ cache_time = Some(0)
    /\ now = CACHE_DURATION
    /\ aliases_file = SearchDataset
    /\ inp.tune_name = Kesh
    /\ AliasKey(Kesh) \in DOMAIN aliases_cache[1]
    /\ Kesh \notin Range(aliases_cache[1][AliasKey(Kesh)])
    /\ Len(out.aliases) = Len(aliases_cache[1][AliasKey(Kesh)]) + 1

(***************************************************************************)
(* Specification SpecShared: the batch runs over directory lists that name *)
(* a directory twice, with one extension order in both processes.          *)
(***************************************************************************)
InitShared ==
    /\ pc = "seq"
    /\ inp \in [tunes : TuneLists, directories : DirectoryLists,
                use_aliases : BOOLEAN, threshold : {BatchThreshold},
                overload : {None}, max_workers : WorkerCounts,
                disk : BatchDisks, seq_order : {<<mp3, flac>> \o OtherExtensions},
                par_order : {<<mp3, flac>> \o OtherExtensions}]
    /\ out = <<>>
    /\ aliases_file = SearchDataset
    /\ aliases_cache = None
    /\ cache_time = None
    /\ now = 0
    /\ git_invoked = FALSE
    /\ cache_file = <<>>
    /\ seq_next = 1
    /\ seq_results = <<>>
    /\ par_pc = "idle"
    /\ file_candidates = <<>>
    /\ search_tasks = <<>>
    /\ futures = <<>>
    /\ par_results = <<>>
    /\ max_workers = 0

SpecShared == InitShared /\ [][NextBatch]_vars

\* no path twice, and each candidate carries the name derived from its path
Deduplicated(candidates) ==
    /\ \A i, j \in DOMAIN candidates :
           candidates[i][1] = candidates[j][1] => i = j
    /\ \A i \in DOMAIN candidates :
           candidates[i][2] = extract_tune_name_from_path(candidates[i][1])

\* one entry per distinct tune name of the input
OneEntryPerTune(results, tunes) ==
    /\ \A i, j \in DOMAIN results : results[i][1] = results[j][1] => i = j
    /\ { results[i][1] : i \in DOMAIN results } = Range(tunes)

\* C27: in parallel mode the directory set is scanned exactly once, before
\* any per-tune task is submitted; every task receives the same
\* deduplicated candidate list with its derived names; no worker modifies
\* that list; and after all workers complete, in any completion order, the
\* aggregator holds exactly one entry per distinct input tune name
C27_OneScanShared ==
    [][ /\ file_candidates' # file_candidates
            => /\ par_pc = "scan"
               /\ search_tasks = <<>>
               /\ futures = <<>>
        /\ par_pc' = "scan" => par_pc \in {"idle", "scan"}
        /\ (par_pc = "scan" /\ par_pc' # "scan")
            => /\ par_pc' = "prepare"
               /\ Deduplicated(file_candidates')
        /\ \A i \in DOMAIN futures' :
               (futures'[i].state = "done" /\ futures[i].state = "running")
                   => futures'[i].result
                          = search_single_tune(search_tasks[i], file_candidates')
        /\ par_pc' = "done" => OneEntryPerTune(par_results', inp.tunes)
      ]_vars

\* a directory was named twice and held two files, the same tune was asked
\* for twice, and the run returned one entry, with a match
C27_Witness ==
    /\ par_pc = "done"
    /\ inp.directories = <<dir_d, dir_d>>
    /\ Len(file_candidates) = MaxFiles
    /\ Len(inp.tunes) = 2
    /\ inp.tunes[1] = inp.tunes[2]
    /\ Len(par_results) = 1
    /\ par_results[1][2] # <<>>

(***************************************************************************)
(* album_search and find_tune.find_tune_instances.  recordings.csv is      *)
(* [exists, rows], a row being [artist, recording, tune, tune_id, track].  *)
(***************************************************************************)
dash == <<" ", "-", " ">>

album_key(info) == info.artist \o dash \o info.album

\* dict iteration order: the albums in order of first appearance, each with
\* its tunes in row order
RECURSIVE AlbumOrder(_)
AlbumOrder(infos) ==
    IF infos = <<>> THEN <<>>
    ELSE SelectSeq(infos, LAMBDA t : album_key(t) = album_key(Head(infos)))
             \o AlbumOrder(SelectSeq(infos,
                    LAMBDA t : album_key(t) # album_key(Head(infos))))

\* load_recordings_data(): {} when the file is missing or a row lacks a
\* column (None.strip() raises inside the try); otherwise the rows that
\* have an artist, an album and a tune
load_recordings_data(file) ==
    IF ~file.exists THEN <<>>
    ELSE IF \E i \in DOMAIN file.rows :
                NoValue \in { file.rows[i].artist, file.rows[i].recording,
                              file.rows[i].tune, file.rows[i].tune_id,
                              file.rows[i].track }
    THEN <<>>
    ELSE AlbumOrder(SelectSeq(
             [i \in DOMAIN file.rows |->
                 [tune |-> Strip(file.rows[i].tune),
                  tune_id |-> Strip(file.rows[i].tune_id),
                  track |-> Strip(file.rows[i].track),
                  artist |-> Strip(file.rows[i].artist),
                  album |-> Strip(file.rows[i].recording)]],
             LAMBDA t : t.artist # <<>> /\ t.album # <<>> /\ t.tune # <<>>))

find_albums_with_tune(album_data, tune_name, use_aliases, aliases_map) ==
    LET search_names ==
            IF use_aliases THEN Range(get_tune_aliases(aliases_map, tune_name))
            ELSE {tune_name}
        normalized_search == { normalize_tune_name(n) : n \in search_names }
    IN  SelectSeq(album_data,
                  LAMBDA t : normalize_tune_name(t.tune) \in normalized_search)

\* Path.parts of an absolute path
PathParts(file_path) ==
    <<<<"/">>>> \o SelectSeq(Split(file_path, <<"/">>), LAMBDA q : q # <<>>)

\* Path.name
PathName(file_path) == From(file_path, LastIndex(file_path, "/"))

\* lines 133-151: the name is in the lower-cased path, or some part of the
\* path is a fuzzy match of it at 0.8
in_path(name, file_path) ==
    \/ Contains(Lower(file_path), Lower(name))
    \/ \E i \in DOMAIN PathParts(file_path) :
           fuzzy_match_tune(name, <<PathParts(file_path)[i]>>,
                            Frac(4, 5), None) # <<>>

\* f"{int(track_num):02d}"
TwoDigits(track_num) ==
    LET digits == DropWhile(track_num, {"0"})
    IN  IF digits = <<>> THEN <<"0", "0">>
        ELSE IF Len(digits) = 1 THEN <<"0">> \o digits
        ELSE digits

IsDigit(str) == str # <<>> /\ \A i \in DOMAIN str : str[i] \in Digits

HighConfidence == Frac(19, 20)

GoodConfidence == Frac(17, 20)

PartialMatch == Frac(3, 4)

\* lines 153-168: the matches one album gives one file
album_file_matches(info, file_path) ==
    LET artist_match == in_path(info.artist, file_path)
        album_match == in_path(info.album, file_path)
    IN  IF artist_match /\ album_match
        THEN << <<file_path,
                  IF IsDigit(info.track)
                         /\ Contains(PathName(file_path), TwoDigits(info.track))
                  THEN HighConfidence ELSE GoodConfidence,
                  <<"Album: ">> \o album_key(info)>> >>
        ELSE IF artist_match \/ album_match
        THEN << <<file_path, PartialMatch,
                  <<"Possible album: ">> \o album_key(info)>> >>
        ELSE <<>>

\* lines 170-176: per path, in order of first appearance, the first match
\* of the highest score
BestPerPath(matches) ==
    LET paths == UniquePaths([i \in DOMAIN matches |-> matches[i][1]], {})
    IN  [k \in DOMAIN paths |->
            LET mine == SelectSeq(matches, LAMBDA m : m[1] = paths[k])
                top == CHOOSE i \in DOMAIN mine :
                           /\ \A j \in DOMAIN mine : GE(mine[i][2], mine[j][2])
                           /\ \A j \in 1..(i - 1) : ~GE(mine[j][2], mine[i][2])
            IN  mine[top]]

\* search_by_album_context: threshold is a parameter the body never reads
search_by_album_context(tune_name, directories, threshold, use_aliases, aliases_map, fs, recordings) ==
    LET albums == find_albums_with_tune(load_recordings_data(recordings),
                                        tune_name, use_aliases, aliases_map)
        all_files ==
            Concat([i \in 1..Len(directories) |->
                       find_audio_files(fs.dirs[directories[i]],
                                        fs.ext_order, fs.fold)])
    IN  IF albums = <<>> THEN <<>>
        ELSE BestPerPath(Concat(
                 [a \in DOMAIN albums |->
                     Concat([f \in DOMAIN all_files |->
                                album_file_matches(albums[a], all_files[f])])]))

\* find_tune_instances: the direct matches, capped at overload, then the
\* album matches of other paths, then one sort by score
find_tune_instances(tune_name, directories, threshold, use_aliases, use_album_search, overload, aliases_map, fs, recordings) ==
    LET direct_matches ==
            search_local_files(tune_name, directories, use_aliases, threshold,
                               overload, aliases_map, fs)
        matches_with_reason ==
            [i \in DOMAIN direct_matches |->
                <<direct_matches[i][1], direct_matches[i][2], None>>]
        existing_paths == { direct_matches[i][1] : i \in DOMAIN direct_matches }
    IN  IF use_album_search
        THEN SortByScore(
                 matches_with_reason
                     \o SelectSeq(
                            search_by_album_context(tune_name, directories,
                                threshold, use_aliases, aliases_map, fs,
                                recordings),
                            LAMBDA m : m[1] \notin existing_paths))
        ELSE SortByScore(matches_with_reason)

(***************************************************************************)
(* Specification SpecInstances: one call of find_tune_instances over a     *)
(* music directory with an artist folder and an album folder.              *)
(***************************************************************************)
MaxAlbumFiles == 3

Ab == <<"A", "b">>

Cd == <<"C", "d">>

a_track == <<"/","d","/","A","b","/","C","d","/","0","5"," ","K","e","s","h",".","m","p","3">>

a_other == <<"/","d","/","A","b","/","C","d","/","L","e","a","f",".","m","p","3">>

a_artist == <<"/","d","/","A","b","/","J","i","g",".","m","p","3">>

a_plain == <<"/","d","/","K","e","s","h",".","m","p","3">>

AlbumTraversal == << a_track, a_other, a_artist, a_plain >>

AlbumListings ==
    { SelectSeq(AlbumTraversal, LAMBDA f : f \in S) :
          S \in { T \in SUBSET Range(AlbumTraversal) :
                      Cardinality(T) <= MaxAlbumFiles } }

RecordingRow(tune, track) ==
    [artist |-> Ab, recording |-> Cd, tune |-> tune, tune_id |-> <<"1">>,
     track |-> track]

RecordingsFiles ==
    { [exists |-> FALSE, rows |-> <<>>],
      [exists |-> TRUE, rows |-> <<RecordingRow(The_Kesh, <<"5">>)>>],
      [exists |-> TRUE, rows |-> <<RecordingRow(Kesh, <<>>),
                                   RecordingRow(Kesh, <<"5">>)>>] }

InstanceThreshold == Frac(4, 5)

InitInstances ==
    /\ pc = "start"
    /\ inp \in [tune_name : {Kesh, the_kesh}, directories : {<<dir_missing, dir_d>>},
                threshold : {InstanceThreshold}, use_aliases : BOOLEAN,
                use_album_search : BOOLEAN, overload : {None} \cup { Some(n) : n \in 1..MaxCap },
                disk : { Disk(l, FALSE) : l \in AlbumListings },
                ext_order : {<<mp3, flac>> \o OtherExtensions},
                recordings : RecordingsFiles]
    /\ out = <<>>
    /\ aliases_file = SearchDataset
    /\ aliases_cache = None
    /\ cache_time = None
    /\ now = 0
    /\ git_invoked = FALSE
    /\ cache_file = <<>>
    /\ BatchIdle

\* matches = find_tune_instances(tune_name, directories, threshold,
\*                               use_aliases, use_album_search=..., overload=N)
FindTuneInstances ==
    /\ pc = "start"
    /\ pc' = "instances"
    /\ SearchAliases(inp.use_aliases)
    /\ out' = [matches |->
                  find_tune_instances(inp.tune_name, inp.directories,
                      inp.threshold, inp.use_aliases, inp.use_album_search,
                      inp.overload,
                      SearchMap(inp.use_aliases, aliases_cache'),
                      FileSystem(inp.disk, inp.ext_order), inp.recordings)]
    /\ UNCHANGED <<inp, now, batchVars>>

NextInstances == FindTuneInstances

SpecInstances == InitInstances /\ [][NextInstances]_vars

CACHE_EXPIRY_DAYS == 30

HoursPerDay == 24

\* is_cache_entry_valid(entry): written less than CACHE_EXPIRY_DAYS ago
is_cache_entry_valid(entry, time) ==
    entry.timestamp > time - CACHE_EXPIRY_DAYS * HoursPerDay

\* cache[cache_key], for a key the cache holds
DictGet(d, k) == d[CHOOSE i \in DOMAIN d : d[i][1] = k][2]

tune_page == <<"/","t","u","n","e","s","/","5","5">>

\* search_thesession(tune_name) and fetch_tune_aliases(tune_url): no
\* result, or a tune page with the names it lists
SiteAnswers ==
    { [tune_url |-> None, aliases |-> <<>>] }
        \cup { [tune_url |-> Some(tune_page), aliases |-> l] :
                   l \in { <<>>, <<The_Kesh, Kesh>> } }

\* lines 136-147: the list for a name the cache did not answer
site_aliases(tune_name, site) ==
    IF site.tune_url = None THEN <<tune_name>>
    ELSE IF site.aliases = <<>> THEN <<tune_name>>
    ELSE IF tune_name \notin Range(site.aliases)
    THEN Append(site.aliases, tune_name)
    ELSE site.aliases

(***************************************************************************)
(* Specification SpecQueryCache: lookups through the per-query cache, in   *)
(* several letter cases, while time passes.                                *)
(***************************************************************************)
MaxPeriods == 2

\* the clock moves in halves of the expiry period
HalfExpiry == (CACHE_EXPIRY_DAYS \div 2) * HoursPerDay

CaseQueries == { Kesh, kesh, Leaf }

InitQueryCache ==
    /\ pc = "start"
    /\ inp = <<>>
    /\ out = <<>>
    /\ CacheIdle
    /\ BatchIdle

\* aliases = thesession_integration.get_tune_aliases(tune_name, use_cache)
GetCachedAliases ==
    \E tune_name \in CaseQueries, use_cache \in BOOLEAN, site \in SiteAnswers :
        LET cache_key == Strip(Lower(tune_name))
            cached == \E i \in DOMAIN cache_file : cache_file[i][1] = cache_key
        IN  /\ pc' = "queried"
            /\ inp' = [tune_name |-> tune_name, use_cache |-> use_cache]
            /\ IF use_cache /\ cached
                  /\ is_cache_entry_valid(DictGet(cache_file, cache_key), now)
               THEN /\ out' = [aliases |->
                                  DictGet(cache_file, cache_key).aliases]
                    /\ UNCHANGED cache_file
               ELSE /\ out' = [aliases |-> site_aliases(tune_name, site)]
                    /\ cache_file' =
                           DictSet(cache_file, cache_key,
                                   [aliases |-> site_aliases(tune_name, site),
                                    timestamp |-> now,
                                    url |-> site.tune_url])
            /\ UNCHANGED <<aliases_file, aliases_cache, cache_time, now,
                           git_invoked, batchVars>>

\* half an expiry period passes
TimePasses ==
    /\ now + HalfExpiry <= MaxPeriods * HalfExpiry
    /\ now' = now + HalfExpiry
    /\ UNCHANGED <<pc, inp, out, aliases_file, aliases_cache, cache_time,
                   git_invoked, cache_file, batchVars>>

NextQueryCache == GetCachedAliases \/ TimePasses

SpecQueryCache == InitQueryCache /\ [][NextQueryCache]_vars

\* C29: after any sequence of earlier lookups, the list returned for a name
\* is non-empty and contains that name exactly as queried, also when the
\* answer comes from a cache entry stored under the same lower-cased key by
\* an earlier query in another letter case
C29_ContainsQueriedName ==
    pc = "queried"
        => /\ out.aliases # <<>>
           /\ inp.tune_name \in Range(out.aliases)

\* the maps a load from the file on disk can return
LoadResults(file) == { r[2] : r \in load_aliases_data(file, RemoteDatasets) }

\* C30: when a load fails, get_aliases_map caches the empty map with a
\* fresh timestamp; every lookup within the following CACHE_DURATION
\* resolves each name to itself only and does not retry the load; the load
\* is retried on the first lookup after the window has elapsed
C30_FailedLoadCached ==
    [][ /\ (LookupStep /\ ~InWindow /\ aliases_cache' = Some(EmptyMap))
            => cache_time' = Some(now)
        /\ (LookupStep /\ InWindow /\ aliases_cache = Some(EmptyMap))
            => /\ UNCHANGED <<aliases_cache, cache_time, aliases_file,
                              git_invoked>>
               /\ pc' = "aliases" => out'.aliases = <<inp'.tune_name>>
        /\ (LookupStep /\ ~InWindow /\ aliases_cache = Some(EmptyMap))
            => /\ cache_time' = Some(now)
               /\ aliases_cache'[1] \in LoadResults(aliases_file)
      ]_vars

\* the first load failed, the file has become readable since, and one
\* hour after the failed load a lookup still resolved the name to itself
C30_Witness ==
    /\ pc = "aliases"
    /\ aliases_cache = Some(EmptyMap)
    /\ cache_time = Some(0)
    /\ now = CACHE_DURATION
    /\ aliases_file = CacheDatasetA
    /\ inp.tune_name = Kesh
    /\ out.aliases = <<Kesh>>

====
